---- MODULE Spec2Model ----
(***************************************************************************)
(* PII-Shield: the detection / validation / masking pipeline               *)
(* (src/pii_shield/detector.py, utils.py, validator.py and                 *)
(* src/Pii_sheild/patterns.py, masking.py).                                *)
(*                                                                         *)
(* Texts are TLA+ strings; a character is a string of length 1.  Offsets   *)
(* are 0-based and spans are half-open, as in Python: Slice(s, a, b) is    *)
(* s[a:b].  Confidences are integers in units of 1/10000 (0.95 is 9500).   *)
(* The alphabet is ASCII: letters, digits, white space and punctuation.    *)
(***************************************************************************)
EXTENDS Integers, Sequences, FiniteSets, TLC

-----------------------------------------------------------------------------
(* Characters and Python's str helpers                                      *)

UpperChars == "ABCDEFGHIJKLMNOPQRSTUVWXYZ"
LowerChars == "abcdefghijklmnopqrstuvwxyz"
DigitChars == "0123456789"

CharsOf(s) == {SubSeq(s, i, i) : i \in 1..Len(s)}

Upper == CharsOf(UpperChars)
Lower == CharsOf(LowerChars)
Digits == CharsOf(DigitChars)
Letters == Upper \cup Lower

\* the capitals of the Latin-1 range (U+00C0..U+00DE without the sign U+00D7)
\* and, in the same order, their small letters
Latin1UpperChars == "ÀÁÂÃÄÅÆÇÈÉÊËÌÍÎÏÐÑÒÓÔÕÖØÙÚÛÜÝÞ"
Latin1LowerChars == "àáâãäåæçèéêëìíîïðñòóôõöøùúûüýþ"

\* the characters of the Latin-1 range with c.isupper(), with c.islower() (the
\* last five have no capital in the range) and with c.isdigit()
CasedUpperChars == UpperChars \o Latin1UpperChars
CasedLowerChars == LowerChars \o Latin1LowerChars
UpperCased == CharsOf(CasedUpperChars)
LowerCased == CharsOf(CasedLowerChars) \cup {"ß", "ÿ", "µ", "ª", "º"}
DigitLike == Digits \cup {"²", "³", "¹"}
\* the characters of the Latin-1 range for which str.isspace() holds: what
\* str.split(), str.strip(), int() and the regex class \s take for white
\* space.  After the five that have an escape come, written as themselves,
\* VT (0x0B), FS, GS, RS, US (0x1C..0x1F), NEL (0x85) and NBSP (0xA0); the
\* white space above U+00FF cannot be written in a string here
WhiteSpace ==
    {" ", "\t", "\n", "\r", "\f", "", "", "", "", "", "", " "}
\* the regex class \w of a str pattern in the Latin-1 range: the characters
\* with c.isalnum(), and the underscore
WordChars == UpperCased \cup LowerCased \cup DigitLike \cup {"¼", "½", "¾", "_"}

\* s[a:b] for 0 <= a, with b clipped to len(s)
Slice(s, a, b) ==
    LET hi == IF b > Len(s) THEN Len(s) ELSE b
    IN  IF a >= hi THEN "" ELSE SubSeq(s, a + 1, hi)

\* s[i]
CharAt(s, i) == SubSeq(s, i + 1, i + 1)

IndexIn(alphabet, c) == CHOOSE i \in 1..Len(alphabet) : SubSeq(alphabet, i, i) = c

\* the character of the alphabet to at the place c has in the alphabet from
Translate(c, from, to) == SubSeq(to, IndexIn(from, c), IndexIn(from, c))

\* c.lower() for one character
LowerChar(c) ==
    IF c \in UpperCased
    THEN Translate(c, CasedUpperChars, CasedLowerChars)
    ELSE c

\* the capital that stands for c when a regex ignores case: the one-to-one
\* upper-case mapping, which leaves the range for two small letters and keeps
\* the others
UpperChar(c) ==
    IF c \in CharsOf(CasedLowerChars) THEN Translate(c, CasedLowerChars, CasedUpperChars)
    ELSE c

\* c.upper() for one character: "SS" for the sharp s and the Greek capital
\* U+039C for the micro sign.  The capital of the y with diaeresis (U+00FF) is
\* U+0178.  A string literal of this notation takes a character above U+00FF
\* only when the low byte of its code point is 80 (hexadecimal) or more, which
\* holds of U+039C and not of U+0178, and no operator on strings makes a
\* character that no literal holds.  The operator therefore has no value for
\* that one letter: no arm of the CASE is taken, and nothing is said about
\* the mask of a name with a part that begins with it
StrUpperChar(c) ==
    CASE c = "ß" -> "SS"
      [] c = "µ" -> "Μ"
      [] c \notin {"ß", "µ", "ÿ"} -> UpperChar(c)

RECURSIVE MapChars(_, _)
\* ''.join(f[c] for c in s), by halves; f is a function on the characters of s
MapChars(s, f) ==
    IF Len(s) = 0 THEN ""
    ELSE IF Len(s) = 1 THEN f[s]
    ELSE MapChars(SubSeq(s, 1, Len(s) \div 2), f) \o MapChars(SubSeq(s, Len(s) \div 2 + 1, Len(s)), f)

\* s.lower()
LowerStr(s) == MapChars(s, [c \in CharsOf(s) |-> LowerChar(c)])

\* s.isupper() / s.islower(): no cased character of the other case, and at
\* least one cased character
IsUpperStr(s) ==
    /\ \A i \in 1..Len(s) : SubSeq(s, i, i) \notin LowerCased
    /\ \E i \in 1..Len(s) : SubSeq(s, i, i) \in UpperCased
IsLowerStr(s) ==
    /\ \A i \in 1..Len(s) : SubSeq(s, i, i) \notin UpperCased
    /\ \E i \in 1..Len(s) : SubSeq(s, i, i) \in LowerCased

\* the least element of a non-empty set of integers
Least(S) == CHOOSE a \in S : \A b \in S : a <= b

\* the elements of a finite set of integers in ascending order
Ascending(S) ==
    [n \in 1..Cardinality(S) |-> CHOOSE a \in S : Cardinality({b \in S : b < a}) = n - 1]

\* the least i >= from with text[i:i+len(sub)] == sub, or -1
FindFrom(text, sub, from) ==
    LET hits == {i \in from..(Len(text) - Len(sub)) : Slice(text, i, i + Len(sub)) = sub}
    IN  IF hits = {} THEN -1 ELSE Least(hits)

\* text.find(sub)
Find(text, sub) == FindFrom(text, sub, 0)

\* sub in text
Contains(text, sub) == Find(text, sub) # -1

\* the 0-based offsets of the characters of text that are in chars
OffsetsIn(text, chars) == {i \in 0..(Len(text) - 1) : CharAt(text, i) \in chars}

\* the pieces of s between consecutive separator characters, empty pieces
\* included: s.split(c), re.split('[seps]', s)
SplitOn(s, seps) ==
    LET cuts == Ascending(OffsetsIn(s, seps))
        n == Len(cuts)
    IN  [j \in 1..(n + 1) |->
            Slice(s, IF j = 1 THEN 0 ELSE cuts[j - 1] + 1, IF j = n + 1 THEN Len(s) ELSE cuts[j])]

\* text.split(): the maximal runs of non-white-space characters, in order
Split(text) == SelectSeq(SplitOn(text, WhiteSpace), LAMBDA w : w # "")

RECURSIVE JoinSpace(_)
\* ' '.join(parts)
JoinSpace(parts) ==
    IF Len(parts) = 0 THEN ""
    ELSE IF Len(parts) = 1 THEN parts[1]
    ELSE parts[1] \o " " \o JoinSpace(Tail(parts))

\* s.lstrip(chars), s.rstrip(chars)
LStrip(s, chars) ==
    Slice(s, Least({i \in 0..Len(s) : i = Len(s) \/ CharAt(s, i) \notin chars}), Len(s))
RStrip(s, chars) ==
    Slice(s, 0, Least({k \in 0..Len(s) : \A i \in k..(Len(s) - 1) : CharAt(s, i) \in chars}))
\* s.strip(chars)
Strip(s, chars) == RStrip(LStrip(s, chars), chars)

\* ''.join(c for c in s if c in chars)
Keep(s, chars) == MapChars(s, [c \in CharsOf(s) |-> IF c \in chars THEN c ELSE ""])

\* re.sub('[chars]', '', s)
Drop(s, chars) == MapChars(s, [c \in CharsOf(s) |-> IF c \in chars THEN "" ELSE c])

RECURSIVE Repeat(_, _)
\* c * n, by halves
Repeat(c, n) ==
    IF n <= 0 THEN ""
    ELSE IF n = 1 THEN c
    ELSE Repeat(c, n \div 2) \o Repeat(c, n - n \div 2)

\* int(c) for one decimal digit
DigitVal(c) == IndexIn(DigitChars, c) - 1

RECURSIVE Decimal(_)
\* str(n) for n >= 0
Decimal(n) ==
    IF n < 10 THEN SubSeq(DigitChars, n + 1, n + 1)
    ELSE Decimal(n \div 10) \o SubSeq(DigitChars, (n % 10) + 1, (n % 10) + 1)

\* f"{n:04d}"
Pad4(n) == Repeat("0", 4 - Len(Decimal(n))) \o Decimal(n)

-----------------------------------------------------------------------------
(* Regular expressions, as Python's re matches them (backtracking, greedy    *)
(* quantifiers, alternatives tried in order).  A pattern is a sequence of    *)
(* items:                                                                    *)
(*   [k |-> "wb"]                       \b                                   *)
(*   [k |-> "lit", s]                   a literal string                     *)
(*   [k |-> "set", set, min, max]       a character class, {min,max}         *)
(*   [k |-> "grp", alts, min, max]      (?:a|b|...){min,max}                 *)
(*   [k |-> "not", alts]                (?!a|b|...)                          *)
(* max < 0 is "no upper limit".  ic is re.IGNORECASE.                        *)

WB == [k |-> "wb"]
Lit(s) == [k |-> "lit", s |-> s]
Cls(set, min, max) == [k |-> "set", set |-> set, min |-> min, max |-> max]
One(set) == Cls(set, 1, 1)
Opt(set) == Cls(set, 0, 1)
D(min, max) == Cls(Digits, min, max)
Grp(alts, min, max) == [k |-> "grp", alts |-> alts, min |-> min, max |-> max]
NotAhead(alts) == [k |-> "not", alts |-> alts]
\* [\s\-]?
Sep == Opt(WhiteSpace \cup {"-"})

IsWordAt(text, i) == i >= 0 /\ i < Len(text) /\ CharAt(text, i) \in WordChars

\* \b at offset pos
AtWordBoundary(text, pos) == IsWordAt(text, pos - 1) # IsWordAt(text, pos)

InClass(c, set, ic) ==
    \/ c \in set
    \/ ic /\ (LowerChar(c) \in set \/ UpperChar(c) \in set)

LitAt(text, pos, s, ic) ==
    /\ pos + Len(s) <= Len(text)
    /\ IF ic THEN LowerStr(Slice(text, pos, pos + Len(s))) = LowerStr(s)
             ELSE Slice(text, pos, pos + Len(s)) = s

\* how many characters from pos on are in the class, up to max
RunLen(text, pos, set, max, ic) ==
    LET avail == Len(text) - pos
        limit == IF max < 0 \/ max > avail THEN (IF avail < 0 THEN 0 ELSE avail) ELSE max
    IN  CHOOSE n \in 0..limit :
            /\ \A i \in 0..(n - 1) : InClass(CharAt(text, pos + i), set, ic)
            /\ n = limit \/ ~InClass(CharAt(text, pos + n), set, ic)

RECURSIVE Ends(_, _, _, _)
RECURSIVE EachEnd(_, _, _, _, _, _)
RECURSIVE AltEnds(_, _, _, _, _, _)

\* The offsets at which one item can end when it starts at pos, in the order
\* in which backtracking tries them: a greedy quantifier tries the longest
\* run first, a group tries its alternatives from left to right and one
\* more round before it stops.
ItemEnds(h, text, pos, ic) ==
    CASE h.k = "wb" -> IF AtWordBoundary(text, pos) THEN <<pos>> ELSE <<>>
      [] h.k = "lit" -> IF LitAt(text, pos, h.s, ic) THEN <<pos + Len(h.s)>> ELSE <<>>
      [] h.k = "not" ->
            IF Len(AltEnds(h.alts, 1, Len(h.alts), text, pos, ic)) > 0 THEN <<>> ELSE <<pos>>
      [] h.k = "set" ->
            LET n == RunLen(text, pos, h.set, h.max, ic)
            IN  IF n < h.min THEN <<>>
                ELSE [j \in 1..(n - h.min + 1) |-> pos + n - j + 1]
      [] h.k = "grp" ->
            LET more == IF h.max = 0 THEN <<>>
                        ELSE Ends(<<Grp(h.alts, h.min - 1, h.max - 1)>>, text,
                                  AltEnds(h.alts, 1, Len(h.alts), text, pos, ic), ic)
            IN  IF h.min <= 0 THEN Append(more, pos) ELSE more

\* the ends of one item started at each offset list[lo..hi], in order
EachEnd(h, text, list, lo, hi, ic) ==
    IF lo = hi THEN ItemEnds(h, text, list[lo], ic)
    ELSE LET mid == (lo + hi) \div 2
         IN  EachEnd(h, text, list, lo, mid, ic) \o EachEnd(h, text, list, mid + 1, hi, ic)

\* the ends of the alternatives lo..hi of a group started at pos, in order
AltEnds(alts, lo, hi, text, pos, ic) ==
    IF lo = hi THEN Ends(alts[lo], text, <<pos>>, ic)
    ELSE LET mid == (lo + hi) \div 2
         IN  AltEnds(alts, lo, mid, text, pos, ic) \o AltEnds(alts, mid + 1, hi, text, pos, ic)

\* the ends of a sequence of items started at each offset of list, in order
Ends(items, text, list, ic) ==
    IF Len(items) = 0 \/ Len(list) = 0 THEN list
    ELSE Ends(Tail(items), text, EachEnd(Head(items), text, list, 1, Len(list), ic), ic)

\* The end of the first match (in backtracking order) of the items at pos,
\* or -1.
MatchSeq(items, text, pos, ic) ==
    LET e == Ends(items, text, <<pos>>, ic)
    IN  IF Len(e) = 0 THEN -1 ELSE e[1]

RECURSIVE SpansFrom(_, _)
\* The non-overlapping matches from offset pos on, from left to right, as
\* spans; found holds <<b, e>> for every offset b at which the pattern
\* matches, e being the end of that match.  The scan takes the first such
\* offset and resumes at the end of that match (one further on after an
\* empty match).
SpansFrom(found, pos) ==
    LET later == {p \in found : p[1] >= pos}
    IN  IF later = {} THEN <<>>
        ELSE LET first == CHOOSE p \in later : \A q \in later : p[1] <= q[1]
             IN  <<[start |-> first[1], end |-> first[2]]>>
                 \o SpansFrom(found, IF first[2] > first[1] THEN first[2] ELSE first[1] + 1)

\* re.finditer
FindIter(items, text, ic) ==
    SpansFrom({p \in {<<b, MatchSeq(items, text, b, ic)>> : b \in 0..Len(text)} : p[2] # -1}, 0)

-----------------------------------------------------------------------------
(* PIIType and the pattern registry                                          *)

PIITypes == {"CREDIT_CARD", "SSN", "EMAIL", "PHONE", "PERSON_NAME", "ADDRESS",
             "IP_ADDRESS", "DATE_OF_BIRTH", "PASSPORT", "DRIVER_LICENSE",
             "BANK_ACCOUNT", "TAX_ID"}

PIIPattern(t, items, conf, rv) ==
    [pii_type |-> t, pattern |-> items, confidence |-> conf, requires_validation |-> rv]

\* \d{4}[\s\-]?\d{4}[\s\-]?\d{4}\b, the tail of three card patterns
CardTail == <<Sep, D(4, 4), Sep, D(4, 4), Sep, D(4, 4), WB>>

\* (?!000|666|9\d{2})
NotBadArea == NotAhead(<< <<Lit("000")>>, <<Lit("666")>>, <<Lit("9"), D(2, 2)>> >>)

\* 25[0-5]|2[0-4][0-9]|[01]?[0-9][0-9]?
Octet == << <<Lit("25"), One({"0", "1", "2", "3", "4", "5"})>>,
            <<Lit("2"), One({"0", "1", "2", "3", "4"}), D(1, 1)>>,
            <<Opt({"0", "1"}), D(1, 1), D(0, 1)>> >>

\* 0[1-9]|1[0-2]
Month == << <<Lit("0"), One(Digits \ {"0"})>>, <<Lit("1"), One({"0", "1", "2"})>> >>
\* 0[1-9]|[12][0-9]|3[01]
Day == << <<Lit("0"), One(Digits \ {"0"})>>, <<One({"1", "2"}), D(1, 1)>>,
          <<Lit("3"), One({"0", "1"})>> >>
\* [/\-](?:19|20)\d{2}\b
YearTail == <<One({"/", "-"}), Grp(<< <<Lit("19")>>, <<Lit("20")>> >>, 1, 1), D(2, 2), WB>>

EmailLocal == Letters \cup Digits \cup {".", "_", "%", "+", "-"}
EmailDomain == Letters \cup Digits \cup {".", "-"}

\* PatternRegistry._initialize_patterns, in registry order
Patterns == <<
    PIIPattern("CREDIT_CARD", <<WB, Lit("4"), D(3, 3)>> \o CardTail, 9500, TRUE),
    PIIPattern("CREDIT_CARD", <<WB, Lit("5"), One({"1", "2", "3", "4", "5"}), D(2, 2)>> \o CardTail,
               9500, TRUE),
    PIIPattern("CREDIT_CARD", <<WB, Lit("3"), One({"4", "7"}), D(2, 2), Sep, D(6, 6), Sep, D(5, 5), WB>>,
               9500, TRUE),
    PIIPattern("CREDIT_CARD",
               <<WB, Lit("6"), Grp(<< <<Lit("011")>>, <<Lit("5"), D(2, 2)>> >>, 1, 1)>> \o CardTail,
               9500, TRUE),
    PIIPattern("SSN",
               <<WB, NotBadArea, D(3, 3), Sep, NotAhead(<< <<Lit("00")>> >>), D(2, 2), Sep,
                 NotAhead(<< <<Lit("0000")>> >>), D(4, 4), WB>>,
               9800, TRUE),
    PIIPattern("SSN",
               <<WB, NotBadArea, D(3, 3), NotAhead(<< <<Lit("00")>> >>), D(2, 2),
                 NotAhead(<< <<Lit("0000")>> >>), D(4, 4), WB>>,
               9800, TRUE),
    PIIPattern("EMAIL",
               <<WB, Cls(EmailLocal, 1, -1), Lit("@"), Cls(EmailDomain, 1, -1), Lit("."),
                 Cls(Letters \cup {"|"}, 2, -1), WB>>,
               9900, FALSE),
    PIIPattern("PHONE",
               <<WB, Grp(<< <<Opt({"+"}), Lit("1"), Sep>> >>, 0, 1), Opt({"("}), D(3, 3), Opt({")"}),
                 Sep, D(3, 3), Sep, D(4, 4), WB>>,
               8500, FALSE),
    PIIPattern("PHONE",
               <<WB, Grp(<< <<Lit("+"), D(1, 3), Sep>> >>, 0, 1), D(2, 4), Sep, D(3, 4), Sep,
                 D(3, 4), WB>>,
               8000, FALSE),
    PIIPattern("IP_ADDRESS",
               <<WB, Grp(<< <<Grp(Octet, 1, 1), Lit(".")>> >>, 3, 3), Grp(Octet, 1, 1), WB>>,
               9000, FALSE),
    PIIPattern("DATE_OF_BIRTH",
               <<WB, Grp(Month, 1, 1), One({"/", "-"}), Grp(Day, 1, 1)>> \o YearTail,
               7500, FALSE),
    PIIPattern("DATE_OF_BIRTH",
               <<WB, Grp(Day, 1, 1), One({"/", "-"}), Grp(Month, 1, 1)>> \o YearTail,
               7500, FALSE),
    PIIPattern("PASSPORT", <<WB, Cls(Upper, 1, 2), D(6, 9), WB>>, 7000, FALSE),
    PIIPattern("DRIVER_LICENSE", <<WB, One(Upper), D(7, 8), WB>>, 6500, FALSE),
    PIIPattern("DRIVER_LICENSE", <<WB, D(9, 9), WB>>, 6000, FALSE),
    PIIPattern("BANK_ACCOUNT", <<WB, D(8, 17), WB>>, 5000, FALSE),
    PIIPattern("TAX_ID", <<WB, D(2, 2), Opt({"-"}), D(7, 7), WB>>, 7500, FALSE)
>>

-----------------------------------------------------------------------------
(* PIIValidator                                                              *)

RECURSIVE DigitsValue(_)
\* int(s) for a non-empty string of decimal digits
DigitsValue(s) ==
    IF Len(s) = 1 THEN DigitVal(s)
    ELSE 10 * DigitsValue(SubSeq(s, 1, Len(s) - 1)) + DigitVal(SubSeq(s, Len(s), Len(s)))

\* s.isdigit()
IsDigitStr(s) == s # "" /\ \A i \in 1..Len(s) : SubSeq(s, i, i) \in DigitLike

\* s is not empty and made of the decimal digits 0 to 9, the digits int() reads
IsDecimalStr(s) == s # "" /\ \A i \in 1..Len(s) : SubSeq(s, i, i) \in Digits

\* the white space int() takes off both ends: that of str.isspace() without
\* FS, GS, RS and US (0x1C..0x1F)
IntWhiteSpace == WhiteSpace \ {"", "", "", ""}

\* int(s): white space around, an optional sign, decimal digits with single
\* underscores between them.  [ok |-> FALSE] is ValueError.
ParseInt(s) ==
    LET t == Strip(s, IntWhiteSpace)
        signed == t # "" /\ Head(t) \in {"+", "-"}
        body == IF signed THEN Tail(t) ELSE t
        groups == SplitOn(body, {"_"})
        good == \A g \in 1..Len(groups) : IsDecimalStr(groups[g])
        v == DigitsValue(Drop(body, {"_"}))
    IN  IF good
        THEN [ok |-> TRUE, val |-> IF signed /\ Head(t) = "-" THEN 0 - v ELSE v]
        ELSE [ok |-> FALSE, val |-> 0]

RECURSIVE LuhnSum(_, _)
\* the checksum over the digits, read from the right; i is the 0-based index
\* from the right of the last character of digits
LuhnSum(digits, i) ==
    IF digits = "" THEN 0
    ELSE LET d == DigitVal(SubSeq(digits, Len(digits), Len(digits)))
             dd == IF i % 2 = 1 THEN (IF 2 * d > 9 THEN 2 * d - 9 ELSE 2 * d) ELSE d
         IN  dd + LuhnSum(SubSeq(digits, 1, Len(digits) - 1), i + 1)

\* what a validator call comes to: [ok |-> TRUE, val |-> b] when it returns
\* b, and [ok |-> FALSE, val |-> FALSE] when an int() in it raises ValueError
Returns(b) == [ok |-> TRUE, val |-> b]
ValueError == [ok |-> FALSE, val |-> FALSE]

\* "[int(d) for d in card_number if d.isdigit()]" raises on a character that
\* isdigit() takes and int() does not
validate_credit_card(card_number) ==
    LET digits == Keep(card_number, DigitLike)
    IN  IF digits # "" /\ ~IsDecimalStr(digits) THEN ValueError
        ELSE IF Len(digits) < 13 \/ Len(digits) > 19 THEN Returns(FALSE)
        ELSE Returns(LuhnSum(digits, 0) % 10 = 0)

\* a faulty variant of validate_ssn: the areas 734 to 749 are let through
validate_ssn_any_area(ssn) ==
    LET clean_ssn == Drop(ssn, WhiteSpace \cup {"-"})
    IN  IF Len(clean_ssn) # 9 \/ ~IsDigitStr(clean_ssn) THEN Returns(FALSE)
        ELSE LET area == ParseInt(SubSeq(clean_ssn, 1, 3))
                 group == ParseInt(SubSeq(clean_ssn, 4, 5))
                 serial == ParseInt(SubSeq(clean_ssn, 6, 9))
             IN  IF ~area.ok \/ ~group.ok \/ ~serial.ok THEN ValueError
                 ELSE IF area.val = 0 \/ area.val = 666 \/ area.val >= 900 THEN Returns(FALSE)
                 ELSE IF group.val = 0 \/ serial.val = 0 THEN Returns(FALSE)
                 ELSE Returns(TRUE)

\* the three int() calls come before the first test, and one of them raises
\* when clean_ssn holds a character that isdigit() takes and int() does not
validate_ssn(ssn) ==
    LET clean_ssn == Drop(ssn, WhiteSpace \cup {"-"})
    IN  IF Len(clean_ssn) # 9 \/ ~IsDigitStr(clean_ssn) THEN Returns(FALSE)
        ELSE LET area == ParseInt(SubSeq(clean_ssn, 1, 3))
                 group == ParseInt(SubSeq(clean_ssn, 4, 5))
                 serial == ParseInt(SubSeq(clean_ssn, 6, 9))
             IN  IF ~area.ok \/ ~group.ok \/ ~serial.ok THEN ValueError
                 ELSE IF area.val = 0 \/ area.val = 666 \/ area.val >= 900 THEN Returns(FALSE)
                 ELSE IF group.val = 0 \/ serial.val = 0 THEN Returns(FALSE)
                 ELSE IF 734 <= area.val /\ area.val <= 749 THEN Returns(FALSE)
                 ELSE Returns(TRUE)

validate_email(email) ==
    LET parts == SplitOn(email, {"@"})
    IN  IF Len(email) > 254 THEN FALSE
        ELSE IF Len(parts) # 2 THEN FALSE
        ELSE LET local == parts[1]
                 domain == parts[2]
                 domain_parts == SplitOn(domain, {"."})
             IN  IF Len(local) = 0 \/ Len(local) > 64 THEN FALSE
                 ELSE IF Len(domain) = 0 \/ Len(domain) > 253 THEN FALSE
                 ELSE IF ~Contains(domain, ".") THEN FALSE
                 ELSE IF \E j \in 1..Len(domain_parts) : Len(domain_parts[j]) = 0 THEN FALSE
                 ELSE TRUE

validate_phone(phone) ==
    LET digits == Keep(phone, DigitLike)
    IN  IF Len(digits) = 10
        THEN LET area_code == ParseInt(SubSeq(digits, 1, 3))
             IN  IF ~area_code.ok THEN ValueError
                 ELSE IF area_code.val < 200 \/ area_code.val \in {911, 988}
                 THEN Returns(FALSE)
                 ELSE Returns(TRUE)
        ELSE IF 11 <= Len(digits) /\ Len(digits) <= 15 THEN Returns(TRUE)
        ELSE Returns(FALSE)

validate_ip_address(ip) ==
    LET parts == SplitOn(ip, {"."})
    IN  IF Len(parts) # 4 THEN FALSE
        ELSE \A j \in 1..4 :
                LET num == ParseInt(parts[j])
                IN  num.ok /\ ~(num.val < 0 \/ num.val > 255)

validate_date_of_birth(dob) ==
    LET parts == SplitOn(dob, {"/", "-"})
    IN  IF Len(parts) # 3 THEN FALSE
        ELSE LET four == {j \in 1..3 : Len(parts[j]) = 4}
             IN  IF four = {} THEN FALSE
                 ELSE LET first == CHOOSE j \in four : \A k \in four : j <= k
                          year == ParseInt(parts[first])
                      IN  IF ~year.ok THEN FALSE
                          ELSE IF year.val < 1900 \/ year.val > 2025 THEN FALSE
                          ELSE \A j \in 1..3 :
                                  Len(parts[j]) <= 2 =>
                                      LET val == ParseInt(parts[j])
                                      IN  val.ok /\ ~(val.val < 1 \/ val.val > 31)

\* re.match(r'^[A-Z]{1,2}\d{6,9}$', passport); $ also matches before a final
\* newline
is_valid_passport(passport) ==
    LET e == MatchSeq(<<Cls(Upper, 1, 2), D(6, 9)>>, passport, 0, FALSE)
    IN  e # -1 /\ (e = Len(passport) \/ (e = Len(passport) - 1 /\ CharAt(passport, e) = "\n"))

-----------------------------------------------------------------------------
(* ContextValidator                                                          *)

NameNegativeKeywords ==
    {"file", "folder", "document", "system", "server", "application", "program",
     "code", "variable"}

AddressKeywords ==
    {"address", "located", "live", "office", "building", "suite", "floor", "unit",
     "apt", "apartment"}

\* before + ' ' + after, lower-cased, for a window of w characters each side
ContextWindow(text, start, end, w) ==
    LowerStr(Slice(text, IF start - w > 0 THEN start - w ELSE 0, start))
        \o " " \o LowerStr(Slice(text, end, end + w))

is_likely_name_context(text, start, end) ==
    LET context == ContextWindow(text, start, end, 20)
        has_negative == \E kw \in NameNegativeKeywords : Contains(context, kw)
    IN  IF has_negative THEN FALSE ELSE TRUE

is_likely_address_context(text, start, end) ==
    LET context == ContextWindow(text, start, end, 30)
    IN  \E kw \in AddressKeywords : Contains(context, kw)

-----------------------------------------------------------------------------
(* ConfidenceCalculator and TextProcessor                                    *)

Min(a, b) == IF a < b THEN a ELSE b
Max(a, b) == IF a > b THEN a ELSE b

\* a faulty variant of adjust_confidence: the boost comes after the penalties
adjust_confidence_boost_last(base_confidence, context_match, validation_passed, length_appropriate) ==
    LET c1 == IF ~validation_passed THEN (base_confidence * 5) \div 10 ELSE base_confidence
        c2 == IF ~length_appropriate THEN (c1 * 7) \div 10 ELSE c1
        c3 == IF context_match THEN Min(10000, c2 + 1000) ELSE c2
    IN  Max(0, Min(10000, c3))

\* confidences in units of 1/10000
adjust_confidence(base_confidence, context_match, validation_passed, length_appropriate) ==
    LET c1 == IF context_match THEN Min(10000, base_confidence + 1000) ELSE base_confidence
        c2 == IF ~validation_passed THEN (c1 * 5) \div 10 ELSE c1
        c3 == IF ~length_appropriate THEN (c2 * 7) \div 10 ELSE c2
    IN  Max(0, Min(10000, c3))

is_capitalized_word(word) ==
    IF Len(word) = 0 THEN FALSE
    ELSE IF Len(word) = 1 THEN IsUpperStr(word)
    ELSE IsUpperStr(Head(word)) /\ IsLowerStr(Tail(word))

-----------------------------------------------------------------------------
(* PIIMasker and MaskingConfig                                               *)

MaskingStrategies == {"FULL", "PARTIAL", "REDACT", "HASH", "TOKENIZE"}

\* strategy=None of PIIMasker.mask
NoStrategy == "None"

\* no PII type: what a variable holds when no call has given it a type
NoType == "None"

\* the default of PIIMasker.__init__'s default_strategy, which is what
\* PIIDetector's "self.masker = PIIMasker()" leaves in the field
DefaultMaskingStrategy == "PARTIAL"

\* MaskingConfig.__init__
DefaultStrategies ==
    [t \in PIITypes |->
        IF t \in {"CREDIT_CARD", "SSN", "EMAIL", "PHONE", "PERSON_NAME", "BANK_ACCOUNT"}
        THEN "PARTIAL" ELSE "FULL"]

get_strategy(strats, pii_type) ==
    IF pii_type \in DOMAIN strats THEN strats[pii_type] ELSE "FULL"

\* a faulty variant of set_strategy: every entry present is overwritten
set_strategy_everywhere(strats, pii_type, strategy) == [t \in DOMAIN strats |-> strategy]

set_strategy(strats, pii_type, strategy) == [strats EXCEPT ![pii_type] = strategy]

set_all_strategies(strats, strategy) == [t \in PIITypes |-> strategy]

_mask_full(value, pii_type) ==
    CASE pii_type = "PERSON_NAME" -> "[NAME]"
      [] pii_type \in PIITypes \ {"PERSON_NAME"} -> "[" \o pii_type \o "]"
      [] OTHER -> "[PII]"

_mask_credit_card(card) ==
    LET clean == Drop(card, WhiteSpace \cup {"-"})
    IN  IF Len(clean) < 4 THEN "****"
        ELSE "****-****-****-" \o SubSeq(clean, Len(clean) - 3, Len(clean))

_mask_ssn(ssn) ==
    LET clean == Drop(ssn, WhiteSpace \cup {"-"})
    IN  IF Len(clean) < 4 THEN "***-**-****"
        ELSE "***-**-" \o SubSeq(clean, Len(clean) - 3, Len(clean))

_mask_email(email) ==
    LET parts == SplitOn(email, {"@"})
    IN  IF Len(parts) # 2 THEN "[EMAIL]"
        ELSE LET username == parts[1]
                 domain == parts[2]
                 masked_user ==
                     IF Len(username) <= 2 THEN "***"
                     ELSE IF Len(username) <= 4 THEN Head(username) \o "***"
                     ELSE Head(username) \o "***" \o SubSeq(username, Len(username), Len(username))
             IN  masked_user \o "@" \o domain

_mask_phone(phone) ==
    LET digits == Keep(phone, DigitLike)
    IN  IF Len(digits) < 4 THEN "[PHONE]"
        ELSE "***-***-" \o SubSeq(digits, Len(digits) - 3, Len(digits))

\* "part[0].upper() + '***'" for each part; without a value where a part
\* begins with U+00FF (see StrUpperChar)
_mask_name(name) ==
    LET parts == Split(name)
    IN  IF Len(parts) = 0 THEN "[NAME]"
        ELSE JoinSpace([j \in 1..Len(parts) |-> StrUpperChar(Head(parts[j])) \o "***"])

_mask_bank_account(account) ==
    LET clean == Keep(account, DigitLike)
    IN  IF Len(clean) < 4 THEN "****"
        ELSE "****" \o SubSeq(clean, Len(clean) - 3, Len(clean))

_mask_partial(value, pii_type) ==
    CASE pii_type = "CREDIT_CARD" -> _mask_credit_card(value)
      [] pii_type = "SSN" -> _mask_ssn(value)
      [] pii_type = "EMAIL" -> _mask_email(value)
      [] pii_type = "PHONE" -> _mask_phone(value)
      [] pii_type = "PERSON_NAME" -> _mask_name(value)
      [] pii_type = "BANK_ACCOUNT" -> _mask_bank_account(value)
      [] OTHER -> _mask_full(value, pii_type)

_mask_redact(value) == Repeat("*", Len(value))

\* the characters with the code points 1 to 95 and 97 to 255, in order; a
\* string here cannot hold the character 96
LowCodePoints ==
    "\t\n\f\r" \o
    " !\"#$%&'()*+,-./0123456789:;<=>?" \o
    "@ABCDEFGHIJKLMNOPQRSTUVWXYZ[\\]^_"

HighCodePoints ==
    "abcdefghijklmnopqrstuvwxyz{|}~" \o
    "" \o
    " ¡¢£¤¥¦§¨©ª«¬­®¯°±²³´µ¶·¸¹º»¼½¾¿" \o
    "ÀÁÂÃÄÅÆÇÈÉÊËÌÍÎÏÐÑÒÓÔÕÖ×ØÙÚÛÜÝÞß" \o
    "àáâãäåæçèéêëìíîïðñòóôõö÷øùúûüýþÿ"

\* ord(c)
Ord(c) ==
    IF c \in CharsOf(LowCodePoints) THEN IndexIn(LowCodePoints, c)
    ELSE IndexIn(HighCodePoints, c) + 96

\* c.encode(): the bytes of the UTF-8 encoding of a character, for code
\* points up to 255
Utf8Char(c) ==
    IF Ord(c) < 128 THEN <<Ord(c)>> ELSE <<192 + (Ord(c) \div 64), 128 + (Ord(c) % 64)>>

RECURSIVE Utf8(_)
\* value.encode()
Utf8(value) ==
    IF Len(value) = 0 THEN <<>>
    ELSE IF Len(value) = 1 THEN Utf8Char(value)
    ELSE Utf8(SubSeq(value, 1, Len(value) \div 2))
         \o Utf8(SubSeq(value, (Len(value) \div 2) + 1, Len(value)))

\* SHA-256 (hashlib.sha256) on 32-bit words, a word x being the pair of its
\* 16-bit halves <<upper, lower>>

\* x + y modulo 2^32
Plus(x, y) == <<(x[1] + y[1] + ((x[2] + y[2]) \div 65536)) % 65536, (x[2] + y[2]) % 65536>>

\* x >> n, for n below 16
Shr(x, n) == <<x[1] \div 2^n, (x[2] \div 2^n) + ((x[1] % 2^n) * 2^(16 - n))>>

\* x rotated right by n bits
Rotr(x, n) ==
    IF n >= 16
    THEN <<(x[2] \div 2^(n - 16)) + ((x[1] % 2^(n - 16)) * 2^(32 - n)),
           (x[1] \div 2^(n - 16)) + ((x[2] % 2^(n - 16)) * 2^(32 - n))>>
    ELSE <<(x[1] \div 2^n) + ((x[2] % 2^n) * 2^(16 - n)),
           (x[2] \div 2^n) + ((x[1] % 2^n) * 2^(16 - n))>>

RECURSIVE Xor3Bits(_, _, _, _, _)
\* a ^ b ^ c on the bits lo..hi of three halves
Xor3Bits(a, b, c, lo, hi) ==
    IF lo = hi
    THEN (((a \div 2^lo) + (b \div 2^lo) + (c \div 2^lo)) % 2) * 2^lo
    ELSE Xor3Bits(a, b, c, lo, (lo + hi) \div 2)
         + Xor3Bits(a, b, c, ((lo + hi) \div 2) + 1, hi)

RECURSIVE ChBits(_, _, _, _, _)
\* (e & f) ^ (~e & g) on the bits lo..hi of three halves
ChBits(e, f, g, lo, hi) ==
    IF lo = hi
    THEN (IF (e \div 2^lo) % 2 = 1 THEN (f \div 2^lo) % 2 ELSE (g \div 2^lo) % 2) * 2^lo
    ELSE ChBits(e, f, g, lo, (lo + hi) \div 2) + ChBits(e, f, g, ((lo + hi) \div 2) + 1, hi)

RECURSIVE MajBits(_, _, _, _, _)
\* (a & b) ^ (a & c) ^ (b & c) on the bits lo..hi of three halves
MajBits(a, b, c, lo, hi) ==
    IF lo = hi
    THEN (IF ((a \div 2^lo) % 2) + ((b \div 2^lo) % 2) + ((c \div 2^lo) % 2) >= 2
          THEN 1 ELSE 0) * 2^lo
    ELSE MajBits(a, b, c, lo, (lo + hi) \div 2)
         + MajBits(a, b, c, ((lo + hi) \div 2) + 1, hi)

Xor3(a, b, c) == <<Xor3Bits(a[1], b[1], c[1], 0, 15), Xor3Bits(a[2], b[2], c[2], 0, 15)>>
Ch(e, f, g) == <<ChBits(e[1], f[1], g[1], 0, 15), ChBits(e[2], f[2], g[2], 0, 15)>>
Maj(a, b, c) == <<MajBits(a[1], b[1], c[1], 0, 15), MajBits(a[2], b[2], c[2], 0, 15)>>

BigSigma0(x) == Xor3(Rotr(x, 2), Rotr(x, 13), Rotr(x, 22))
BigSigma1(x) == Xor3(Rotr(x, 6), Rotr(x, 11), Rotr(x, 25))
SmallSigma0(x) == Xor3(Rotr(x, 7), Rotr(x, 18), Shr(x, 3))
SmallSigma1(x) == Xor3(Rotr(x, 17), Rotr(x, 19), Shr(x, 10))

HexChars == "0123456789abcdef"

RECURSIVE HexValue(_)
\* the number a string of hexadecimal digits writes
HexValue(s) ==
    IF Len(s) = 0 THEN 0
    ELSE (16 * HexValue(SubSeq(s, 1, Len(s) - 1)))
         + (IndexIn(HexChars, SubSeq(s, Len(s), Len(s))) - 1)

HexWord(s) == <<HexValue(SubSeq(s, 1, 4)), HexValue(SubSeq(s, 5, 8))>>

\* the round constants of SHA-256
Sha256KHex == <<
    "428a2f98", "71374491", "b5c0fbcf", "e9b5dba5", "3956c25b", "59f111f1",
    "923f82a4", "ab1c5ed5", "d807aa98", "12835b01", "243185be", "550c7dc3",
    "72be5d74", "80deb1fe", "9bdc06a7", "c19bf174", "e49b69c1", "efbe4786",
    "0fc19dc6", "240ca1cc", "2de92c6f", "4a7484aa", "5cb0a9dc", "76f988da",
    "983e5152", "a831c66d", "b00327c8", "bf597fc7", "c6e00bf3", "d5a79147",
    "06ca6351", "14292967", "27b70a85", "2e1b2138", "4d2c6dfc", "53380d13",
    "650a7354", "766a0abb", "81c2c92e", "92722c85", "a2bfe8a1", "a81a664b",
    "c24b8b70", "c76c51a3", "d192e819", "d6990624", "f40e3585", "106aa070",
    "19a4c116", "1e376c08", "2748774c", "34b0bcb5", "391c0cb3", "4ed8aa4a",
    "5b9cca4f", "682e6ff3", "748f82ee", "78a5636f", "84c87814", "8cc70208",
    "90befffa", "a4506ceb", "bef9a3f7", "c67178f2" >>

Sha256K == [t \in 1..64 |-> HexWord(Sha256KHex[t])]

\* the initial hash value of SHA-256
Sha256H0Hex == <<
    "6a09e667", "bb67ae85", "3c6ef372", "a54ff53a",
    "510e527f", "9b05688c", "1f83d9ab", "5be0cd19" >>

Sha256H0 == [i \in 1..8 |-> HexWord(Sha256H0Hex[i])]

\* the message with the padding: the bit 1, zeros, and the length in bits as
\* eight bytes
Sha256Pad(bytes) ==
    bytes \o <<128>> \o [i \in 1..((119 - (Len(bytes) % 64)) % 64) |-> 0]
          \o [i \in 1..8 |-> IF i < 5 THEN 0 ELSE ((Len(bytes) * 8) \div 256^(8 - i)) % 256]

\* the sixteen big-endian words of the n-th block (from 0) of the padded
\* message
BlockWords(padded, n) ==
    [t \in 1..16 |-> <<(padded[(64 * n) + (4 * t) - 3] * 256) + padded[(64 * n) + (4 * t) - 2],
                       (padded[(64 * n) + (4 * t) - 1] * 256) + padded[(64 * n) + (4 * t)]>>]

\* the next word of the message schedule
ScheduleWord(w) ==
    Plus(Plus(SmallSigma1(w[Len(w) - 1]), w[Len(w) - 6]),
         Plus(SmallSigma0(w[Len(w) - 14]), w[Len(w) - 15]))

RECURSIVE Schedule(_, _)
\* the message schedule: the words extended by n more
Schedule(w, n) ==
    IF n = 0 THEN w
    ELSE IF n = 1 THEN Append(w, ScheduleWord(w))
    ELSE CHOOSE r \in {Schedule(half, n - (n \div 2)) : half \in {Schedule(w, n \div 2)}} : TRUE

\* one round on the working variables v = <<a, b, c, d, e, f, g, h>>; t1 is
\* h + Sigma1(e) + Ch(e, f, g) + K[t] + W[t]
Rotate(v, t1) ==
    <<Plus(t1, Plus(BigSigma0(v[1]), Maj(v[1], v[2], v[3]))), v[1], v[2], v[3],
      Plus(v[4], t1), v[5], v[6], v[7]>>

Round(v, k, w) ==
    Rotate(v, Plus(Plus(v[8], BigSigma1(v[5])), Plus(Ch(v[5], v[6], v[7]), Plus(k, w))))

RECURSIVE Rounds(_, _, _, _)
\* the rounds lo..hi (from 1) on the working variables
Rounds(v, w, lo, hi) ==
    IF lo = hi THEN Round(v, Sha256K[lo], w[lo])
    ELSE CHOOSE r \in {Rounds(half, w, ((lo + hi) \div 2) + 1, hi) :
                       half \in {Rounds(v, w, lo, (lo + hi) \div 2)}} : TRUE

\* the hash value after one more block
Compress(h, v) == [i \in 1..8 |-> Plus(h[i], v[i])]

RECURSIVE Blocks(_, _, _)
\* the hash value after the blocks n.. of the padded message
Blocks(h, padded, n) ==
    IF 64 * n >= Len(padded) THEN h
    ELSE Blocks(Compress(h, Rounds(h, Schedule(BlockWords(padded, n), 48), 1, 64)), padded, n + 1)

RECURSIVE Hex(_, _)
\* x in n lower-case hexadecimal digits
Hex(x, n) ==
    IF n = 0 THEN ""
    ELSE Hex(x \div 16, n - 1) \o SubSeq(HexChars, (x % 16) + 1, (x % 16) + 1)

\* the first twelve digits of hexdigest(): the first word and the upper half
\* of the second
Digest12(h) == Hex(h[1][1], 4) \o Hex(h[1][2], 4) \o Hex(h[2][1], 4)

\* hashlib.sha256(value.encode()).hexdigest()[:12]
Sha256Hex12(value) == Digest12(Blocks(Sha256H0, Sha256Pad(Utf8(value)), 0))

_mask_hash(value, pii_type) == "[" \o pii_type \o ":" \o Sha256Hex12(value) \o "]"

\* the token for the counter value reached by the increment
TokenFor(pii_type, counter) == "[" \o pii_type \o "_TOKEN_" \o Pad4(counter) \o "]"

\* returns the token and the new _token_counter
\* a faulty variant of _mask_tokenize: the token is formatted before the
\* counter is incremented
_mask_tokenize_stale(value, pii_type, counter) ==
    [masked |-> TokenFor(pii_type, counter), counter |-> counter + 1]

_mask_tokenize(value, pii_type, counter) ==
    [masked |-> TokenFor(pii_type, counter + 1), counter |-> counter + 1]

\* a faulty variant of mask: a call without a strategy tokenizes
MaskDefaultTokenize(default, value, pii_type, strategy, counter) ==
    LET s == IF strategy = NoStrategy THEN "TOKENIZE" ELSE strategy
    IN  CASE s = "FULL" -> [masked |-> _mask_full(value, pii_type), counter |-> counter]
          [] s = "PARTIAL" -> [masked |-> _mask_partial(value, pii_type), counter |-> counter]
          [] s = "REDACT" -> [masked |-> _mask_redact(value), counter |-> counter]
          [] s = "HASH" -> [masked |-> _mask_hash(value, pii_type), counter |-> counter]
          [] s = "TOKENIZE" -> _mask_tokenize(value, pii_type, counter)
          [] OTHER -> [masked |-> _mask_partial(value, pii_type), counter |-> counter]

\* a faulty variant of mask: the counter advances whatever the strategy is
MaskCounting(default, value, pii_type, strategy, counter) ==
    [masked |-> _mask_partial(value, pii_type), counter |-> counter + 1]

\* PIIMasker.mask on a masker whose default_strategy field is default: the
\* masked value and the masker's _token_counter after the call
Mask(default, value, pii_type, strategy, counter) ==
    LET s == IF strategy = NoStrategy THEN default ELSE strategy
    IN  CASE s = "FULL" -> [masked |-> _mask_full(value, pii_type), counter |-> counter]
          [] s = "PARTIAL" -> [masked |-> _mask_partial(value, pii_type), counter |-> counter]
          [] s = "REDACT" -> [masked |-> _mask_redact(value), counter |-> counter]
          [] s = "HASH" -> [masked |-> _mask_hash(value, pii_type), counter |-> counter]
          [] s = "TOKENIZE" -> _mask_tokenize(value, pii_type, counter)
          [] OTHER -> [masked |-> _mask_partial(value, pii_type), counter |-> counter]

-----------------------------------------------------------------------------
(* OverlapResolver                                                           *)

PIIMatch(t, value, start, end, confidence, masked_value) ==
    [pii_type |-> t, value |-> value, start |-> start, end |-> end,
     confidence |-> confidence, masked_value |-> masked_value]

\* a faulty variant of _has_overlap: it compares the two ends and so misses a
\* span that ends where the other ends or lies inside it
_has_overlap_ends(match1, match2) == match1.start < match2.end /\ match1.end > match2.end

_has_overlap(match1, match2) == match1.start < match2.end /\ match1.end > match2.start

\* key=lambda x: (x.start, -x.confidence): a sorts strictly before b
KeyLess(a, b) == a.start < b.start \/ (a.start = b.start /\ a.confidence > b.confidence)

\* key=lambda x: x.start
StartLess(a, b) == a.start < b.start

\* a sorts strictly before b under the key in use: (start, -confidence) when
\* by_conf, start alone otherwise
Before(a, b, by_conf) == IF by_conf THEN KeyLess(a, b) ELSE StartLess(a, b)

RECURSIVE InsertSorted(_, _, _)
\* m put after every element that does not sort strictly after it (stable)
InsertSorted(sorted, m, by_conf) ==
    IF Len(sorted) = 0 THEN <<m>>
    ELSE IF Before(m, Head(sorted), by_conf) THEN <<m>> \o sorted
    ELSE <<Head(sorted)>> \o InsertSorted(Tail(sorted), m, by_conf)

RECURSIVE SortedBy(_, _)
\* sorted(ms, key=...), which is stable
SortedBy(ms, by_conf) ==
    IF Len(ms) = 0 THEN <<>>
    ELSE InsertSorted(SortedBy(SubSeq(ms, 1, Len(ms) - 1), by_conf), ms[Len(ms)], by_conf)

\* list.remove(x): without the first element equal to x
RemoveFirst(list, x) ==
    LET k == CHOOSE j \in 1..Len(list) : list[j] = x /\ \A h \in 1..(j - 1) : list[h] # x
    IN  SubSeq(list, 1, k - 1) \o SubSeq(list, k + 1, Len(list))

\* a faulty variant of ResolveStep: a candidate of equal confidence replaces
\* the accepted match
ResolveStepTies(result, match) ==
    LET hits == {j \in 1..Len(result) : _has_overlap(match, result[j])}
    IN  IF hits = {} THEN Append(result, match)
        ELSE LET existing == result[CHOOSE j \in hits : \A h \in hits : j <= h]
             IN  IF match.confidence >= existing.confidence
                 THEN Append(RemoveFirst(result, existing), match)
                 ELSE result

\* the body of the for loop over sorted_matches, for one match
ResolveStep(result, match) ==
    LET hits == {j \in 1..Len(result) : _has_overlap(match, result[j])}
    IN  IF hits = {} THEN Append(result, match)
        ELSE LET existing == result[CHOOSE j \in hits : \A h \in hits : j <= h]
             IN  IF match.confidence > existing.confidence
                 THEN Append(RemoveFirst(result, existing), match)
                 ELSE result

RECURSIVE ResolveLoop(_, _)
ResolveLoop(result, sorted_matches) ==
    IF Len(sorted_matches) = 0 THEN result
    ELSE ResolveLoop(ResolveStep(result, Head(sorted_matches)), Tail(sorted_matches))

resolve_overlaps(ms) ==
    IF Len(ms) = 0 THEN <<>>
    ELSE SortedBy(ResolveLoop(<<>>, SortedBy(ms, TRUE)), FALSE)

-----------------------------------------------------------------------------
(* NamePatterns and AddressPatterns                                          *)

PREFIXES ==
    {"mr", "mrs", "ms", "miss", "dr", "prof", "rev", "hon", "sir", "lord", "lady",
     "capt", "col", "gen", "lt", "sgt", "cpl", "pvt", "adm", "cmdr", "maj"}

SUFFIXES ==
    {"jr", "sr", "ii", "iii", "iv", "v", "esq", "md", "phd", "dds", "jd", "cpa",
     "rn", "dvm", "do", "od", "pharmd"}

COMMON_FIRST_NAMES ==
    {"james", "john", "robert", "michael", "william", "david", "richard", "joseph",
     "thomas", "charles", "christopher", "daniel", "matthew", "anthony", "mark",
     "donald", "steven", "paul", "andrew", "joshua", "kenneth", "kevin", "brian",
     "george", "edward", "ronald", "timothy", "jason", "jeffrey", "ryan",
     "mary", "patricia", "jennifer", "linda", "barbara", "elizabeth", "susan",
     "jessica", "sarah", "karen", "nancy", "lisa", "betty", "margaret", "sandra",
     "ashley", "kimberly", "emily", "donna", "michelle", "dorothy", "carol",
     "amanda", "melissa", "deborah", "stephanie", "rebecca", "sharon", "laura",
     "cynthia", "kathleen", "amy", "angela", "shirley", "anna", "brenda", "pamela",
     "emma", "nicole", "helen", "samantha", "katherine"}

\* AddressPatterns.STREET_TYPES.  It is a Python set, so the order of the
\* alternatives in the compiled pattern is not fixed; each alternative is a
\* word closed by \b, so at most one of them matches at a given offset and
\* the order does not change any match.
STREET_TYPES ==
    <<"street", "st", "avenue", "ave", "road", "rd", "boulevard", "blvd", "lane",
      "ln", "drive", "dr", "court", "ct", "circle", "cir", "way", "place", "pl",
      "terrace", "ter", "parkway", "pkwy", "highway", "hwy", "trail", "path",
      "alley", "walk", "plaza", "square", "loop", "crescent", "creek", "crossing",
      "bend">>

\* the characters of str.strip('.,!?;:()[]{}')
StripChars == {".", ",", "!", "?", ";", ":", "(", ")", "[", "]", "{", "}"}

\* \b\d+\s+[A-Z][a-z]+(?:\s+[A-Z][a-z]+)*\s+(?:street|st|...)\b, compiled
\* with re.IGNORECASE
AddressPattern ==
    <<WB, D(1, -1), Cls(WhiteSpace, 1, -1), One(Upper), Cls(Lower, 1, -1),
      Grp(<< <<Cls(WhiteSpace, 1, -1), One(Upper), Cls(Lower, 1, -1)>> >>, 0, -1),
      Cls(WhiteSpace, 1, -1),
      Grp([j \in 1..Len(STREET_TYPES) |-> <<Lit(STREET_TYPES[j])>>], 1, 1), WB>>

-----------------------------------------------------------------------------
(* PIIDetector.  det is the detector's configuration                         *)
(* [enable_context_validation, enable_strict_validation, strategies];        *)
(* counter is its masker's _token_counter, which masking may advance.        *)
(* An Optional[List[PIIType]] is [is_none, items].                           *)

NoTypes == [is_none |-> TRUE, items |-> <<>>]
TypeList(items) == [is_none |-> FALSE, items |-> items]

\* "t in pii_types" for a list
InList(t, pii_types) == \E j \in 1..Len(pii_types.items) : pii_types.items[j] = t

\* "if pii_types": a list that is neither None nor empty
Truthy(pii_types) == ~pii_types.is_none /\ Len(pii_types.items) > 0

\* what the validator of the type comes to; a ValueError raised in it passes
\* through
_validate_match(value, pii_type) ==
    CASE pii_type = "CREDIT_CARD" -> validate_credit_card(value)
      [] pii_type = "SSN" -> validate_ssn(value)
      [] pii_type = "EMAIL" -> Returns(validate_email(value))
      [] pii_type = "PHONE" -> validate_phone(value)
      [] pii_type = "IP_ADDRESS" -> Returns(validate_ip_address(value))
      [] pii_type = "DATE_OF_BIRTH" -> Returns(validate_date_of_birth(value))
      [] pii_type = "PASSPORT" -> Returns(is_valid_passport(value))
      [] OTHER -> Returns(TRUE)

\* "Check context if enabled": context_match
ContextMatch(det, text, start, end, pii_type) ==
    IF det.enable_context_validation
    THEN CASE pii_type = "PERSON_NAME" -> is_likely_name_context(text, start, end)
           [] pii_type = "ADDRESS" -> is_likely_address_context(text, start, end)
           [] OTHER -> FALSE
    ELSE FALSE

\* a faulty variant of LengthAppropriate: a card number has sixteen digits
LengthAppropriateSixteen(pii_type, value) ==
    CASE pii_type = "CREDIT_CARD" -> Len(Drop(value, WhiteSpace \cup {"-"})) = 16
      [] pii_type = "SSN" -> Len(Drop(value, WhiteSpace \cup {"-"})) = 9
      [] OTHER -> TRUE

\* "Check if length is appropriate": length_appropriate, clean_value being
\* re.sub(r'[\s\-]', '', value)
LengthAppropriate(pii_type, value) ==
    CASE pii_type = "CREDIT_CARD" ->
            /\ 13 <= Len(Drop(value, WhiteSpace \cup {"-"}))
            /\ Len(Drop(value, WhiteSpace \cup {"-"})) <= 19
      [] pii_type = "SSN" -> Len(Drop(value, WhiteSpace \cup {"-"})) = 9
      [] OTHER -> TRUE

_calculate_confidence(det, text, value, start, end, pii_type, base_confidence, validation_passed) ==
    adjust_confidence(base_confidence, ContextMatch(det, text, start, end, pii_type),
                      validation_passed, LengthAppropriate(pii_type, value))

\* a faulty variant of SkipsPattern: a missing list is taken for an empty one
SkipsPatternUnlisted(pattern_def, pii_types) == ~InList(pattern_def.pii_type, pii_types)

\* "Skip if not in requested types"
SkipsPattern(pattern_def, pii_types) ==
    Truthy(pii_types) /\ ~InList(pattern_def.pii_type, pii_types)

\* a faulty variant of the validation step: nothing is validated
IsValidCandidateUnchecked(det, pattern_def, value) == TRUE

\* "Validate if required": is_valid for one regex match.  The value is what
\* the pattern matched, and the digits of the patterns (\d, [0-9]) are 0 to 9
\* in this range of characters, so the validator returns
IsValidCandidate(det, pattern_def, value) ==
    IF pattern_def.requires_validation /\ det.enable_strict_validation
    THEN _validate_match(value, pattern_def.pii_type).val
    ELSE TRUE

\* "Get masking strategy and mask" for one regex match
MaskPatternMatch(det, pattern_def, value, counter) ==
    Mask(DefaultMaskingStrategy, value, pattern_def.pii_type,
         get_strategy(det.strategies, pattern_def.pii_type), counter)

\* what a detection pass has appended so far and the masker's counter
Nothing(counter) == [matches |-> <<>>, counter |-> counter]

\* the matches of first followed by those of rest, which ran after it
Join(first, rest) == [matches |-> first.matches \o rest.matches, counter |-> rest.counter]

\* matches.append(PIIMatch(...)) with the masked value m.masked, m being
\* what the masker returned
Appended(pii_type, value, start, end, confidence, m) ==
    [matches |-> <<PIIMatch(pii_type, value, start, end, confidence, m.masked)>>,
     counter |-> m.counter]

\* the rest of the body of the inner loop of _detect_pattern_based once
\* is_valid is known: "if not is_valid: continue", else the confidence, the
\* mask and the append
ScanValidated(det, pattern_def, text, span, value, counter, is_valid) ==
    IF ~is_valid THEN Nothing(counter)
    ELSE Appended(pattern_def.pii_type, value, span.start, span.end,
                  _calculate_confidence(det, text, value, span.start, span.end,
                      pattern_def.pii_type, pattern_def.confidence, is_valid),
                  MaskPatternMatch(det, pattern_def, value, counter))

\* the body of the inner loop of _detect_pattern_based for one regex match:
\* the matches it appends (none when validation fails) and the masker's
\* counter after it
ScanSpan(det, pattern_def, text, span, counter) ==
    ScanValidated(det, pattern_def, text, span, Slice(text, span.start, span.end), counter,
                  IsValidCandidate(det, pattern_def, Slice(text, span.start, span.end)))

RECURSIVE ScanSpans(_, _, _, _, _)
RECURSIVE ScanSpansAfter(_, _, _, _, _)
\* the inner loop of _detect_pattern_based over the regex matches of one
\* pattern, from left to right
ScanSpans(det, pattern_def, text, spans, counter) ==
    IF Len(spans) = 0 THEN Nothing(counter)
    ELSE ScanSpansAfter(det, pattern_def, text, Tail(spans),
                        ScanSpan(det, pattern_def, text, Head(spans), counter))

\* the rounds of that loop after the one that gave first
ScanSpansAfter(det, pattern_def, text, spans, first) ==
    Join(first, ScanSpans(det, pattern_def, text, spans, first.counter))

\* one round of "for pattern_def, compiled_pattern in self.patterns"
ScanPattern(det, text, pii_types, pattern_def, counter) ==
    IF SkipsPattern(pattern_def, pii_types) THEN Nothing(counter)
    ELSE ScanSpans(det, pattern_def, text, FindIter(pattern_def.pattern, text, FALSE), counter)

RECURSIVE ScanPatterns(_, _, _, _, _, _)
RECURSIVE ScanPatternsAfter(_, _, _, _, _, _)
\* the rounds for the patterns lo..hi of the registry, in registry order
\* (the first half of the range, then the second)
ScanPatterns(det, text, pii_types, lo, hi, counter) ==
    IF lo = hi THEN ScanPattern(det, text, pii_types, Patterns[lo], counter)
    ELSE ScanPatternsAfter(det, text, pii_types, ((lo + hi) \div 2) + 1, hi,
                           ScanPatterns(det, text, pii_types, lo, (lo + hi) \div 2, counter))

\* the rounds for the patterns lo..hi after those that gave first
ScanPatternsAfter(det, text, pii_types, lo, hi, first) ==
    Join(first, ScanPatterns(det, text, pii_types, lo, hi, first.counter))

_detect_pattern_based(det, text, pii_types, counter) ==
    ScanPatterns(det, text, pii_types, 1, Len(Patterns), counter)

RECURSIVE ExtractFrom(_, _, _, _)
ExtractFrom(words, start_idx, i, name_parts) ==
    IF i < Len(words) /\ i < start_idx + 4
    THEN LET word == Strip(words[i + 1], StripChars)
         IN  IF is_capitalized_word(word) \/ LowerStr(word) \in SUFFIXES
             THEN ExtractFrom(words, start_idx, i + 1, Append(name_parts, words[i + 1]))
             ELSE [name_parts |-> name_parts, next |-> i]
    ELSE [name_parts |-> name_parts, next |-> i]

\* words and indices are 0-based as in the source: words[i] is words[i + 1]
\* here
_extract_name_sequence(words, start_idx) ==
    ExtractFrom(words, start_idx, start_idx + 1, <<words[start_idx + 1]>>)

\* a faulty variant of NameStart: the offset one too far
NameStartOffByOne(text, full_name) == Find(text, full_name) + 1

\* a faulty variant of NameStart: the last occurrence
NameStartLast(text, full_name) ==
    LET hits == {i \in 0..(Len(text) - Len(full_name)) :
                    Slice(text, i, i + Len(full_name)) = full_name}
    IN  IF hits = {} THEN -1 ELSE CHOOSE i \in hits : \A j \in hits : j <= i

\* the span of a name: the first occurrence of the joined tokens
NameStart(text, full_name) == Find(text, full_name)

\* end=start_pos + len(full_name)
NameEnd(full_name, start_pos) == start_pos + Len(full_name)

\* masker.mask(full_name, PIIType.PERSON_NAME)
MaskName(det, full_name, counter) == Mask(DefaultMaskingStrategy, full_name, "PERSON_NAME", NoStrategy, counter)

\* masker.mask(address, PIIType.ADDRESS)
MaskAddress(det, address, counter) == Mask(DefaultMaskingStrategy, address, "ADDRESS", NoStrategy, counter)

\* the confidence of a name at start_pos; high and low are the confidences
\* with and without a favourable context
NameConfidence(det, text, full_name, start_pos, high, low) ==
    IF det.enable_context_validation
    THEN (IF is_likely_name_context(text, start_pos, start_pos + Len(full_name))
          THEN high ELSE low)
    ELSE high

\* "if start_pos != -1: ... matches.append(...)" of both name rules, with
\* start_pos = text.find(full_name)
NameFound(det, text, full_name, start_pos, high, low, counter) ==
    IF start_pos = -1 THEN Nothing(counter)
    ELSE Appended("PERSON_NAME", full_name, start_pos, NameEnd(full_name, start_pos),
                  NameConfidence(det, text, full_name, start_pos, high, low),
                  MaskName(det, full_name, counter))

NameCandidate(det, text, full_name, high, low, counter) ==
    NameFound(det, text, full_name, NameStart(text, full_name), high, low, counter)

\* what one round of the while loop of _detect_names leaves: the matches it
\* appended, the counter and the cursor
Advance(found, next) == [matches |-> found.matches, counter |-> found.counter, next |-> next]

\* rule (a), a prefix: seq is the name sequence extracted at the cursor
PrefixRule(det, text, seq, counter) ==
    Advance(IF Len(seq.name_parts) >= 2
            THEN NameCandidate(det, text, JoinSpace(seq.name_parts), 8500, 7000, counter)
            ELSE Nothing(counter),
            seq.next)

\* rule (b), a common first name at cursor i: next_word is the stripped word
\* after it
FirstNameRule(det, text, words, i, next_word, counter) ==
    Advance(IF is_capitalized_word(next_word) /\ Len(next_word) > 2
            THEN NameCandidate(det, text, words[i + 1] \o " " \o words[i + 2],
                               7500, 6000, counter)
            ELSE Nothing(counter),
            i + 2)

\* the body of the while loop of _detect_names at cursor i (0-based), the
\* lower-cased stripped word there being word_lower
NameRules(det, text, words, i, word_lower, counter) ==
    IF word_lower \in PREFIXES /\ i + 1 < Len(words)
    THEN PrefixRule(det, text, _extract_name_sequence(words, i), counter)
    ELSE IF word_lower \in COMMON_FIRST_NAMES /\ i + 1 < Len(words)
    THEN FirstNameRule(det, text, words, i, Strip(words[i + 2], StripChars), counter)
    ELSE Advance(Nothing(counter), i + 1)

\* one round of the while loop of _detect_names at cursor i (0-based)
NameStep(det, text, words, i, counter) ==
    NameRules(det, text, words, i, LowerStr(Strip(words[i + 1], StripChars)), counter)

RECURSIVE NamesFrom(_, _, _, _, _)
RECURSIVE NamesAfter(_, _, _, _)
\* the while loop of _detect_names from cursor i (0-based)
NamesFrom(det, text, words, i, counter) ==
    IF i >= Len(words) THEN Nothing(counter)
    ELSE NamesAfter(det, text, words, NameStep(det, text, words, i, counter))

\* the rounds of that loop after the one that gave first
NamesAfter(det, text, words, first) ==
    Join(first, NamesFrom(det, text, words, first.next, first.counter))

_detect_names(det, text, counter) == NamesFrom(det, text, Split(text), 0, counter)

\* the body of the loop of _detect_addresses for one regex match
AddressSpan(det, text, span, counter) ==
    Appended("ADDRESS", Slice(text, span.start, span.end), span.start, span.end,
             IF det.enable_context_validation
             THEN (IF is_likely_address_context(text, span.start, span.end)
                   THEN 8000 ELSE 6500)
             ELSE 8000,
             MaskAddress(det, Slice(text, span.start, span.end), counter))

RECURSIVE AddressSpans(_, _, _, _)
RECURSIVE AddressSpansAfter(_, _, _, _)
AddressSpans(det, text, spans, counter) ==
    IF Len(spans) = 0 THEN Nothing(counter)
    ELSE AddressSpansAfter(det, text, Tail(spans), AddressSpan(det, text, Head(spans), counter))

\* the rounds of that loop after the one that gave first
AddressSpansAfter(det, text, spans, first) ==
    Join(first, AddressSpans(det, text, spans, first.counter))

_detect_addresses(det, text, counter) ==
    AddressSpans(det, text, FindIter(AddressPattern, text, TRUE), counter)

\* a faulty variant of the threshold filter: the comparison the wrong way round
FilterBelowThreshold(ms, confidence_threshold) ==
    SelectSeq(ms, LAMBDA m : m.confidence <= confidence_threshold)

\* "Filter by confidence threshold"
FilterByThreshold(ms, confidence_threshold) ==
    SelectSeq(ms, LAMBDA m : m.confidence >= confidence_threshold)

\* "if pii_types is None or PIIType.X in pii_types"
Wants(pii_types, t) == pii_types.is_none \/ InList(t, pii_types)

\* "if pii_types is None or PIIType.PERSON_NAME in pii_types": the name
\* pass after the passes that gave done
ThenNames(det, text, pii_types, done) ==
    Join(done, IF Wants(pii_types, "PERSON_NAME")
               THEN _detect_names(det, text, done.counter)
               ELSE Nothing(done.counter))

\* "if pii_types is None or PIIType.ADDRESS in pii_types": the address pass
\* after the passes that gave done
ThenAddresses(det, text, pii_types, done) ==
    Join(done, IF Wants(pii_types, "ADDRESS")
               THEN _detect_addresses(det, text, done.counter)
               ELSE Nothing(done.counter))

\* detect_all up to its filter: the candidate list all_matches (as matches)
\* and the masker's counter after the three detection passes
DetectCandidates(det, text, pii_types, counter) ==
    ThenAddresses(det, text, pii_types,
        ThenNames(det, text, pii_types,
            _detect_pattern_based(det, text, pii_types, counter)))

\* the rest of detect_all: filter by the threshold, resolve the overlaps
FinalMatches(ms, confidence_threshold) ==
    resolve_overlaps(FilterByThreshold(ms, confidence_threshold))

\* the value detect_all returns for the candidates c, with the candidate
\* list and the counter
Detected(c, confidence_threshold) ==
    [matches |-> FinalMatches(c.matches, confidence_threshold),
     all_matches |-> c.matches,
     counter |-> c.counter]

\* detect_all: the returned final_matches, the candidate list all_matches it
\* was computed from, and the masker's counter after the call
detect_all(det, text, confidence_threshold, pii_types, counter) ==
    Detected(DetectCandidates(det, text, pii_types, counter), confidence_threshold)

\* result[:start] + masked_value + result[end:]
Splice(result, match) ==
    Slice(result, 0, match.start) \o match.masked_value \o Slice(result, match.end, Len(result))

RECURSIVE SpliceAll(_, _)
SpliceAll(result, sorted_matches) ==
    IF Len(sorted_matches) = 0 THEN result
    ELSE SpliceAll(Splice(result, Head(sorted_matches)), Tail(sorted_matches))

RECURSIVE Reversed(_)
Reversed(q) == IF Len(q) = 0 THEN <<>> ELSE Append(Reversed(Tail(q)), Head(q))

\* a faulty variant of the sort in mask_text: ascending by start
SortedByStartAsc(ms) == SortedBy(ms, FALSE)

\* sorted(matches, key=lambda x: x.start, reverse=True): stable, so equal
\* starts keep their order
SortedByStartDesc(ms) == Reversed(SortedBy(Reversed(ms), FALSE))

\* mask_text for matches that are given (the list may be empty)
MaskGiven(text, ms) ==
    IF Len(ms) = 0 THEN text ELSE SpliceAll(text, SortedByStartDesc(ms))

-----------------------------------------------------------------------------
(* StatisticsCollector.  self.statistics is None unless collect_statistics   *)
(* was given: is_none says so, and the counters are then not there to read.  *)
(* Times are whole milliseconds.                                             *)

\* the empty dict of counts
EmptyCounts == [k \in {} |-> 0]

\* "self.statistics = ... None"
NoStatistics ==
    [is_none |-> TRUE, total_detections |-> 0, detections_by_type |-> EmptyCounts,
     total_texts_processed |-> 0, total_processing_time |-> 0]

\* StatisticsCollector.__init__
NewStatistics == [NoStatistics EXCEPT !.is_none = FALSE]

\* a faulty variant of record_detection: the count of the type is set to one
\* instead of being incremented
record_detection_once(stats, pii_type) ==
    [stats EXCEPT
        !.total_detections = stats.total_detections + 1,
        !.detections_by_type =
            [k \in DOMAIN stats.detections_by_type \cup {pii_type} |->
                IF k = pii_type THEN 1 ELSE stats.detections_by_type[k]]]

\* StatisticsCollector.record_detection
record_detection(stats, pii_type) ==
    LET by_type == stats.detections_by_type
        seen == IF pii_type \in DOMAIN by_type THEN by_type[pii_type] ELSE 0
    IN  [stats EXCEPT
            !.total_detections = stats.total_detections + 1,
            !.detections_by_type =
                [k \in DOMAIN by_type \cup {pii_type} |->
                    IF k = pii_type THEN seen + 1 ELSE by_type[k]]]

\* StatisticsCollector.record_processing
record_processing(stats, processing_time) ==
    [stats EXCEPT
        !.total_texts_processed = stats.total_texts_processed + 1,
        !.total_processing_time = stats.total_processing_time + processing_time]

RECURSIVE RecordDetections(_, _)
\* "for match in final_matches: self.statistics.record_detection(...)"
RecordDetections(stats, ms) ==
    IF Len(ms) = 0 THEN stats
    ELSE RecordDetections(record_detection(stats, Head(ms).pii_type), Tail(ms))

\* "Record statistics" in detect_all, the call having taken processing_time
RecordStatistics(stats, ms, processing_time) ==
    IF stats.is_none THEN stats
    ELSE RecordDetections(record_processing(stats, processing_time), ms)

\* StatisticsCollector.reset
reset(stats) == NewStatistics

\* PIIDetector.reset_statistics
reset_statistics(stats) == IF stats.is_none THEN stats ELSE reset(stats)

\* StatisticsCollector.get_stats; the average is the quotient of avg_time_num
\* by avg_time_den milliseconds, and 0 when no text was processed
get_stats(stats) ==
    [is_none |-> FALSE,
     total_detections |-> stats.total_detections,
     detections_by_type |-> stats.detections_by_type,
     total_texts_processed |-> stats.total_texts_processed,
     avg_time_num |-> IF stats.total_texts_processed > 0 THEN stats.total_processing_time ELSE 0,
     avg_time_den |-> IF stats.total_texts_processed > 0 THEN stats.total_texts_processed ELSE 1]

\* what get_statistics returns without a collector
NoStats ==
    [is_none |-> TRUE, total_detections |-> 0, detections_by_type |-> EmptyCounts,
     total_texts_processed |-> 0, avg_time_num |-> 0, avg_time_den |-> 1]

\* PIIDetector.get_statistics
get_statistics(stats) == IF stats.is_none THEN NoStats ELSE get_stats(stats)

\* the sum of the counts of a dict of counts
SumCounts(by_type) ==
    LET RECURSIVE SumOver(_)
        SumOver(keys) ==
            IF keys = {} THEN 0
            ELSE LET k == CHOOSE k \in keys : TRUE
                 IN  by_type[k] + SumOver(keys \ {k})
    IN  SumOver(DOMAIN by_type)

-----------------------------------------------------------------------------
(* ReversibleMasker.  mapping is _mapping, a function from the tokens issued *)
(* to their values.                                                          *)

\* Optional[str]: None, which dict.get returns for a key it has not, and a
\* string
None == [is_none |-> TRUE, value |-> ""]
Some(value) == [is_none |-> FALSE, value |-> value]

\* f"[{pii_type.value}_{self._counter:04d}]"
ReversibleToken(pii_type, counter) == "[" \o pii_type \o "_" \o Pad4(counter) \o "]"

\* a faulty variant of ReversibleMasker.mask: the counter is not advanced
reversible_mask_same_counter(mapping, counter, value, pii_type) ==
    LET token == ReversibleToken(pii_type, counter)
    IN  [token |-> token,
         mapping |-> [k \in DOMAIN mapping \cup {token} |->
                         IF k = token THEN value ELSE mapping[k]],
         counter |-> counter]

\* ReversibleMasker.mask: the token, the mapping and the counter after the call
reversible_mask(mapping, counter, value, pii_type) ==
    LET token == ReversibleToken(pii_type, counter + 1)
    IN  [token |-> token,
         mapping |-> [k \in DOMAIN mapping \cup {token} |->
                         IF k = token THEN value ELSE mapping[k]],
         counter |-> counter + 1]

\* self._mapping.get(token)
unmask(mapping, token) == IF token \in DOMAIN mapping THEN Some(mapping[token]) ELSE None

\* the empty dict
EmptyMapping == [k \in {} |-> ""]

\* ReversibleMasker.clear_mapping: the mapping and the counter after the call
clear_mapping == [mapping |-> EmptyMapping, counter |-> 0]

-----------------------------------------------------------------------------
(* The state machine.  One PIIDetector works on one document; one            *)
(* ReversibleMasker issues tokens.  last_call is the name of the most recent *)
(* call; requested_types, threshold, candidates and final_matches are the    *)
(* arguments of the most recent detect_all, the all_matches list it went     *)
(* through and the list it returned; masked_text is what the most recent     *)
(* mask_text returned.                                                       *)

\* the largest _token_counter and ReversibleMasker._counter a run goes to
MaxTokenCounter == 4
MaxCounter == 3
\* the candidate lists handed to the resolver: at most MaxCandidates spans
\* with offsets up to MaxEnd
MaxCandidates == 3
MaxEnd == 2

\* the documents
Texts ==
    {"Dr. John Smith a@b.co 856432190",
     "card 4111111111111111 or 4532148803436467",
     "Mary Jones, 12 Oak Avenue",
     "ssn 734-56-7890",
     "no pii here"}

\* confidence_threshold arguments
Thresholds == {5000, 8000}

\* pii_types arguments
TypeFilters == {NoTypes, TypeList(<<>>), TypeList(<<"EMAIL", "PERSON_NAME">>)}

\* the arguments of set_masking_strategy and set_all_masking_strategies
ConfigTypes == {"PERSON_NAME"}
ConfigStrategies == {"REDACT"}
ConfigAllStrategies == {"TOKENIZE"}

\* the detect_all calls a collector counts before it is reset, and how long
\* a call may take
MaxCalls == 2
Durations == {0, 1}

\* the callers that share one masker
Callers == {1, 2}

\* the arguments of ReversibleMasker.mask
Values == {"a@b.co", "c@d.io", "None"}
ReversibleTypes == {"EMAIL", "SSN"}

VARIABLES input_text, enable_context_validation, enable_strict_validation,
          strategies, default_strategy, _token_counter,
          last_call, requested_types, threshold, final_matches, candidates, masked_text,
          _mapping, _counter, live, revoked,
          statistics, calls_since, returned_since,
          issued, pc, tmp,
          config_call, verdict,
          adjustment, masked_type,
          cursor, examined, consumed

vars == <<input_text, enable_context_validation, enable_strict_validation,
          strategies, default_strategy, _token_counter,
          last_call, requested_types, threshold, final_matches, candidates, masked_text,
          _mapping, _counter, live, revoked,
          statistics, calls_since, returned_since,
          issued, pc, tmp,
          config_call, verdict,
          adjustment, masked_type,
          cursor, examined, consumed>>

detector_vars == <<input_text, enable_context_validation, enable_strict_validation,
                   strategies, _token_counter>>
call_vars == <<last_call, requested_types, threshold, final_matches, candidates, masked_text>>
reversible_vars == <<_mapping, _counter, live, revoked>>
stats_vars == <<statistics, calls_since, returned_since>>
caller_vars == <<issued, pc, tmp>>
query_vars == <<config_call, verdict>>
calc_vars == <<adjustment, masked_type>>
scan_vars == <<cursor, examined, consumed>>
\* the field of the PIIMasker that its constructor sets
masker_vars == <<default_strategy>>

\* the PIIDetector as the operators above take it
Detector ==
    [enable_context_validation |-> enable_context_validation,
     enable_strict_validation |-> enable_strict_validation,
     strategies |-> strategies]

\* nothing has been called yet
NoCall ==
    /\ last_call = "__init__"
    /\ requested_types = NoTypes
    /\ threshold = 0
    /\ final_matches = <<>>
    /\ candidates = <<>>
    /\ masked_text = ""

\* ReversibleMasker.__init__; live and revoked are the (token, value) pairs
\* issued since, and the tokens issued before, the last clear_mapping
ReversibleInit ==
    /\ _mapping = EmptyMapping
    /\ _counter = 0
    /\ live = {}
    /\ revoked = {}

\* no collector: collect_statistics is False unless given; calls_since and
\* returned_since count the detect_all calls a collector has seen since it was
\* made or reset, and the matches they returned
StatisticsOff ==
    /\ statistics = NoStatistics
    /\ calls_since = 0
    /\ returned_since = 0

\* no caller is inside PIIMasker.mask; issued lists the tokens returned so
\* far, pc and tmp are each caller's position in _mask_tokenize and the value
\* it has loaded
CallersIdle ==
    /\ issued = <<>>
    /\ pc = [c \in Callers |-> "idle"]
    /\ tmp = [c \in Callers |-> 0]

\* config_call holds the arguments of the most recent MaskingConfig setter,
\* verdict what the most recent validator call came to (Returns(b) or
\* ValueError)
NoConfigCall == [pii_type |-> NoType, strategy |-> NoStrategy]

NoQuery ==
    /\ config_call = NoConfigCall
    /\ verdict = Returns(FALSE)

\* adjustment holds the arguments and the result of the most recent
\* adjust_confidence call, masked_type the type the most recent partial
\* masking call was made for
NoAdjustment ==
    [base_confidence |-> 0, context_match |-> FALSE, validation_passed |-> TRUE,
     length_appropriate |-> TRUE, result |-> 0]

NoCalc ==
    /\ adjustment = NoAdjustment
    /\ masked_type = NoType

\* _detect_names has not started: cursor is i, examined the cursors the loop
\* body has run at, consumed the tokens taken into a candidate
NoScan ==
    /\ cursor = 0
    /\ examined = {}
    /\ consumed = {}

\* "Record statistics" at the end of detect_all, which returned ms
Recorded(ms) ==
    /\ statistics.is_none \/ statistics.total_texts_processed < MaxCalls
    /\ \E processing_time \in IF statistics.is_none THEN {0} ELSE Durations :
          statistics' = RecordStatistics(statistics, ms, processing_time)
    /\ calls_since' = IF statistics.is_none THEN calls_since ELSE calls_since + 1
    /\ returned_since' = IF statistics.is_none THEN returned_since
                         ELSE returned_since + Len(ms)

\* PIIDetector.__init__ with its two flags, and the document it is given
Init ==
    /\ input_text \in Texts
    /\ enable_context_validation \in BOOLEAN
    /\ enable_strict_validation \in BOOLEAN
    /\ strategies = DefaultStrategies
    /\ default_strategy = DefaultMaskingStrategy
    /\ _token_counter = 0
    /\ NoCall
    /\ ReversibleInit
    /\ StatisticsOff
    /\ CallersIdle
    /\ NoQuery
    /\ NoCalc
    /\ NoScan

\* detect_all(input_text, thr, types) for a threshold thr
Detect(types) ==
    \E c \in {DetectCandidates(Detector, input_text, types, _token_counter)} :
        /\ c.counter <= MaxTokenCounter
        /\ \E thr \in Thresholds : \E ms \in {FinalMatches(c.matches, thr)} :
              /\ threshold' = thr
              /\ final_matches' = ms
              /\ Recorded(ms)
        /\ _token_counter' = c.counter
        /\ last_call' = "detect_all"
        /\ requested_types' = types
        /\ candidates' = c.matches
        /\ masked_text' = ""
        /\ UNCHANGED <<input_text, enable_context_validation, enable_strict_validation,
                       strategies>>
        /\ UNCHANGED reversible_vars
        /\ UNCHANGED caller_vars
        /\ UNCHANGED query_vars
        /\ UNCHANGED calc_vars
        /\ UNCHANGED scan_vars
        /\ UNCHANGED masker_vars

\* mask_text(input_text, None, thr) for a threshold thr: "if matches is
\* None" it calls detect_all(input_text, thr) first
MaskTextDetecting ==
    \E c \in {DetectCandidates(Detector, input_text, NoTypes, _token_counter)} :
        /\ c.counter <= MaxTokenCounter
        /\ \E thr \in Thresholds : \E ms \in {FinalMatches(c.matches, thr)} :
              /\ threshold' = thr
              /\ final_matches' = ms
              /\ masked_text' = MaskGiven(input_text, ms)
              /\ Recorded(ms)
        /\ _token_counter' = c.counter
        /\ last_call' = "mask_text"
        /\ requested_types' = NoTypes
        /\ candidates' = c.matches
        /\ UNCHANGED <<input_text, enable_context_validation, enable_strict_validation,
                       strategies>>
        /\ UNCHANGED reversible_vars
        /\ UNCHANGED caller_vars
        /\ UNCHANGED query_vars
        /\ UNCHANGED calc_vars
        /\ UNCHANGED scan_vars
        /\ UNCHANGED masker_vars

\* mask_text(input_text, final_matches) with the list the caller holds: the
\* one detect_all returned last, or the empty list
MaskTextGiven ==
    /\ last_call' = "mask_text"
    /\ masked_text' = MaskGiven(input_text, final_matches)
    /\ UNCHANGED <<requested_types, threshold, final_matches, candidates>>
    /\ UNCHANGED detector_vars
    /\ UNCHANGED reversible_vars
    /\ UNCHANGED stats_vars
    /\ UNCHANGED caller_vars
    /\ UNCHANGED query_vars
    /\ UNCHANGED calc_vars
    /\ UNCHANGED scan_vars
    /\ UNCHANGED masker_vars

\* set_masking_strategy(pii_type, strategy)
SetMaskingStrategy(pii_type, strategy) ==
    /\ strategies' = set_strategy(strategies, pii_type, strategy)
    /\ last_call' = "set_masking_strategy"
    /\ config_call' = [pii_type |-> pii_type, strategy |-> strategy]
    /\ UNCHANGED <<requested_types, threshold, final_matches, candidates, masked_text>>
    /\ UNCHANGED <<input_text, enable_context_validation, enable_strict_validation,
                   _token_counter>>
    /\ UNCHANGED verdict
    /\ UNCHANGED calc_vars
    /\ UNCHANGED scan_vars
    /\ UNCHANGED masker_vars
    /\ UNCHANGED reversible_vars
    /\ UNCHANGED stats_vars
    /\ UNCHANGED caller_vars

\* set_all_masking_strategies(strategy)
SetAllMaskingStrategies(strategy) ==
    /\ strategies' = set_all_strategies(strategies, strategy)
    /\ last_call' = "set_all_masking_strategies"
    /\ config_call' = [pii_type |-> NoType, strategy |-> strategy]
    /\ UNCHANGED <<requested_types, threshold, final_matches, candidates, masked_text>>
    /\ UNCHANGED <<input_text, enable_context_validation, enable_strict_validation,
                   _token_counter>>
    /\ UNCHANGED verdict
    /\ UNCHANGED calc_vars
    /\ UNCHANGED scan_vars
    /\ UNCHANGED masker_vars
    /\ UNCHANGED reversible_vars
    /\ UNCHANGED stats_vars
    /\ UNCHANGED caller_vars

Next ==
    \/ \E types \in TypeFilters : Detect(types)
    \/ MaskTextDetecting
    \/ MaskTextGiven
    \/ \E pii_type \in ConfigTypes, strategy \in ConfigStrategies :
            SetMaskingStrategy(pii_type, strategy)
    \/ \E strategy \in ConfigAllStrategies : SetAllMaskingStrategies(strategy)

Spec == Init /\ [][Next]_vars

-----------------------------------------------------------------------------
(* detect_all called again and again while the masking configuration is     *)
(* changed: every strategy is set for every type at once and for one type   *)
(* the regex patterns find.                                                 *)

\* a text with a name and two e-mail addresses, and one with a name and an
\* address
ConfiguredTexts == {"Dr. John Smith a@b.co c@d.io", "Mary Jones, 12 Oak Avenue"}

\* the arguments of set_masking_strategy, of set_all_masking_strategies and
\* of detect_all
ConfiguredTypes == {"EMAIL"}
ConfiguredStrategies == MaskingStrategies
ConfiguredFilters == {NoTypes}

\* PIIDetector.__init__ with the defaults, and the document it is given
ConfiguredInit ==
    /\ input_text \in ConfiguredTexts
    /\ enable_context_validation = TRUE
    /\ enable_strict_validation = TRUE
    /\ strategies = DefaultStrategies
    /\ default_strategy = DefaultMaskingStrategy
    /\ _token_counter = 0
    /\ NoCall
    /\ ReversibleInit
    /\ StatisticsOff
    /\ CallersIdle
    /\ NoQuery
    /\ NoCalc
    /\ NoScan

ConfiguredNext ==
    \/ \E types \in ConfiguredFilters : Detect(types)
    \/ \E pii_type \in ConfiguredTypes, strategy \in ConfiguredStrategies :
            SetMaskingStrategy(pii_type, strategy)
    \/ \E strategy \in MaskingStrategies : SetAllMaskingStrategies(strategy)

ConfiguredSpec == ConfiguredInit /\ [][ConfiguredNext]_vars

-----------------------------------------------------------------------------
(* The end of detect_all on its own: the scanners may hand it any list of    *)
(* candidate spans.  candidates is all_matches as the scanners fill it.      *)

\* the document the candidate spans lie in
ResolveText == "abcdefgh"

\* the confidences of the candidates
CandidateConfidences == {6000, 9000}

\* what a scanner may append: a non-empty span of the document
CandidateMatches ==
    {PIIMatch("EMAIL", Slice(ResolveText, sp[1], sp[2]), sp[1], sp[2], conf,
              _mask_redact(Slice(ResolveText, sp[1], sp[2]))) :
        sp \in {sp \in (0..MaxEnd) \X (0..MaxEnd) : sp[1] < sp[2]},
        conf \in CandidateConfidences}

ResolveInit ==
    /\ input_text = ResolveText
    /\ enable_context_validation = TRUE
    /\ enable_strict_validation = TRUE
    /\ strategies = DefaultStrategies
    /\ default_strategy = DefaultMaskingStrategy
    /\ _token_counter = 0
    /\ NoCall
    /\ ReversibleInit
    /\ StatisticsOff
    /\ CallersIdle
    /\ NoQuery
    /\ NoCalc
    /\ NoScan

\* "all_matches.extend(...)" with one more candidate
Scan(m) ==
    /\ Len(candidates) < MaxCandidates
    /\ candidates' = Append(candidates, m)
    /\ last_call' = "extend"
    /\ final_matches' = <<>>
    /\ UNCHANGED <<requested_types, threshold, masked_text>>
    /\ UNCHANGED detector_vars
    /\ UNCHANGED reversible_vars
    /\ UNCHANGED stats_vars
    /\ UNCHANGED caller_vars
    /\ UNCHANGED query_vars
    /\ UNCHANGED calc_vars
    /\ UNCHANGED scan_vars
    /\ UNCHANGED masker_vars

\* the threshold filter and resolve_overlaps, on the candidates gathered
Resolve(thr) ==
    /\ last_call' = "detect_all"
    /\ threshold' = thr
    /\ final_matches' = FinalMatches(candidates, thr)
    /\ UNCHANGED <<requested_types, candidates, masked_text>>
    /\ UNCHANGED detector_vars
    /\ UNCHANGED reversible_vars
    /\ UNCHANGED stats_vars
    /\ UNCHANGED caller_vars
    /\ UNCHANGED query_vars
    /\ UNCHANGED calc_vars
    /\ UNCHANGED scan_vars
    /\ UNCHANGED masker_vars

ResolveNext ==
    \/ \E m \in CandidateMatches : Scan(m)
    \/ \E thr \in Thresholds : Resolve(thr)

ResolveSpec == ResolveInit /\ [][ResolveNext]_vars

-----------------------------------------------------------------------------
(* The ReversibleMasker on its own.                                          *)

RevInit ==
    /\ input_text = ""
    /\ enable_context_validation = TRUE
    /\ enable_strict_validation = TRUE
    /\ strategies = DefaultStrategies
    /\ default_strategy = DefaultMaskingStrategy
    /\ _token_counter = 0
    /\ NoCall
    /\ ReversibleInit
    /\ StatisticsOff
    /\ CallersIdle
    /\ NoQuery
    /\ NoCalc
    /\ NoScan

\* ReversibleMasker.mask(value, pii_type)
RevMask(value, pii_type) ==
    /\ _counter < MaxCounter
    /\ \E r \in {reversible_mask(_mapping, _counter, value, pii_type)} :
          /\ _mapping' = r.mapping
          /\ _counter' = r.counter
          /\ live' = live \cup {<<r.token, value>>}
    /\ UNCHANGED revoked
    /\ UNCHANGED detector_vars
    /\ UNCHANGED call_vars
    /\ UNCHANGED stats_vars
    /\ UNCHANGED caller_vars
    /\ UNCHANGED query_vars
    /\ UNCHANGED calc_vars
    /\ UNCHANGED scan_vars
    /\ UNCHANGED masker_vars

\* ReversibleMasker.clear_mapping()
RevClear ==
    /\ _mapping' = clear_mapping.mapping
    /\ _counter' = clear_mapping.counter
    /\ revoked' = revoked \cup {e[1] : e \in live}
    /\ live' = {}
    /\ UNCHANGED detector_vars
    /\ UNCHANGED call_vars
    /\ UNCHANGED stats_vars
    /\ UNCHANGED caller_vars
    /\ UNCHANGED query_vars
    /\ UNCHANGED calc_vars
    /\ UNCHANGED scan_vars
    /\ UNCHANGED masker_vars

RevNext ==
    \/ \E value \in Values, pii_type \in ReversibleTypes : RevMask(value, pii_type)
    \/ RevClear

RevSpec == RevInit /\ [][RevNext]_vars

-----------------------------------------------------------------------------
(* One PIIMasker on its own, called by one caller at a time.                 *)

\* the arguments of PIIMasker.mask
MaskerValues == {"john@example.com"}
MaskerTypes == {"EMAIL", "SSN", "PHONE"}
MaskerStrategies == {"TOKENIZE", "REDACT", NoStrategy}

\* "strategy = strategy or self.default_strategy"
EffectiveStrategy(strategy) == IF strategy = NoStrategy THEN default_strategy ELSE strategy

\* the default_strategy arguments of PIIMasker.__init__
MaskerDefaults == {DefaultMaskingStrategy, "TOKENIZE"}

\* PIIMasker.__init__: "self.default_strategy = default_strategy"
MaskerInit ==
    /\ input_text = ""
    /\ enable_context_validation = TRUE
    /\ enable_strict_validation = TRUE
    /\ strategies = DefaultStrategies
    /\ default_strategy \in MaskerDefaults
    /\ _token_counter = 0
    /\ NoCall
    /\ ReversibleInit
    /\ StatisticsOff
    /\ CallersIdle
    /\ NoQuery
    /\ NoCalc
    /\ NoScan

\* PIIMasker.mask(value, pii_type, strategy), run from call to return
MaskerMask(value, pii_type, strategy) ==
    /\ _token_counter < MaxTokenCounter
    /\ \E r \in {Mask(default_strategy, value, pii_type, strategy, _token_counter)} :
          /\ _token_counter' = r.counter
          /\ masked_text' = r.masked
          /\ issued' = IF EffectiveStrategy(strategy) = "TOKENIZE"
                       THEN Append(issued, r.masked) ELSE issued
    /\ last_call' = "mask"
    /\ UNCHANGED <<requested_types, threshold, final_matches, candidates>>
    /\ UNCHANGED <<input_text, enable_context_validation, enable_strict_validation,
                   strategies>>
    /\ UNCHANGED <<pc, tmp>>
    /\ UNCHANGED reversible_vars
    /\ UNCHANGED stats_vars
    /\ UNCHANGED query_vars
    /\ UNCHANGED calc_vars
    /\ UNCHANGED scan_vars
    /\ UNCHANGED masker_vars

MaskerNext ==
    \E value \in MaskerValues : \E pii_type \in MaskerTypes :
        \E strategy \in MaskerStrategies : MaskerMask(value, pii_type, strategy)

MaskerSpec == MaskerInit /\ [][MaskerNext]_vars

-----------------------------------------------------------------------------
(* One PIIMasker shared by two callers, each inside mask(value, EMAIL,       *)
(* TOKENIZE).  _mask_tokenize takes no lock: a caller reads the counter,     *)
(* writes it back incremented, and later reads it again to format the token, *)
(* and the other caller may run between any two of these steps.              *)

ConcInit ==
    /\ input_text = ""
    /\ enable_context_validation = TRUE
    /\ enable_strict_validation = TRUE
    /\ strategies = DefaultStrategies
    /\ default_strategy = DefaultMaskingStrategy
    /\ _token_counter = 0
    /\ NoCall
    /\ ReversibleInit
    /\ StatisticsOff
    /\ CallersIdle
    /\ NoQuery
    /\ NoCalc
    /\ NoScan

\* "self._token_counter += 1": the read
LoadCounter(c) ==
    /\ pc[c] = "idle"
    /\ _token_counter < MaxTokenCounter
    /\ tmp' = [tmp EXCEPT ![c] = _token_counter]
    /\ pc' = [pc EXCEPT ![c] = "loaded"]
    /\ last_call' = "mask"
    /\ UNCHANGED <<_token_counter, issued, masked_text>>
    /\ UNCHANGED <<requested_types, threshold, final_matches, candidates>>
    /\ UNCHANGED <<input_text, enable_context_validation, enable_strict_validation,
                   strategies>>
    /\ UNCHANGED reversible_vars
    /\ UNCHANGED stats_vars
    /\ UNCHANGED query_vars
    /\ UNCHANGED calc_vars
    /\ UNCHANGED scan_vars
    /\ UNCHANGED masker_vars

\* "self._token_counter += 1": the write
StoreCounter(c) ==
    /\ pc[c] = "loaded"
    /\ _token_counter' = tmp[c] + 1
    /\ pc' = [pc EXCEPT ![c] = "stored"]
    /\ UNCHANGED <<tmp, issued>>
    /\ UNCHANGED call_vars
    /\ UNCHANGED <<input_text, enable_context_validation, enable_strict_validation,
                   strategies>>
    /\ UNCHANGED reversible_vars
    /\ UNCHANGED stats_vars
    /\ UNCHANGED query_vars
    /\ UNCHANGED calc_vars
    /\ UNCHANGED scan_vars
    /\ UNCHANGED masker_vars

\* the return statement: the counter is read again and formatted
ReturnToken(c) ==
    /\ pc[c] = "stored"
    /\ issued' = Append(issued, TokenFor("EMAIL", _token_counter))
    /\ masked_text' = TokenFor("EMAIL", _token_counter)
    /\ pc' = [pc EXCEPT ![c] = "idle"]
    /\ UNCHANGED <<tmp, _token_counter>>
    /\ UNCHANGED <<last_call, requested_types, threshold, final_matches, candidates>>
    /\ UNCHANGED <<input_text, enable_context_validation, enable_strict_validation,
                   strategies>>
    /\ UNCHANGED reversible_vars
    /\ UNCHANGED stats_vars
    /\ UNCHANGED query_vars
    /\ UNCHANGED calc_vars
    /\ UNCHANGED scan_vars
    /\ UNCHANGED masker_vars

ConcNext ==
    \E c \in Callers :
        \/ LoadCounter(c)
        \/ StoreCounter(c)
        \/ ReturnToken(c)

ConcSpec == ConcInit /\ [][ConcNext]_vars

-----------------------------------------------------------------------------
(* The PIIDetector with and without a StatisticsCollector.                   *)

\* the documents given to it
StatsTexts == {"Dr. John Smith a@b.co", "no pii here"}

\* PIIDetector.__init__ with collect_statistics False or True
StatsInit ==
    /\ input_text \in StatsTexts
    /\ enable_context_validation = TRUE
    /\ enable_strict_validation = TRUE
    /\ strategies = DefaultStrategies
    /\ default_strategy = DefaultMaskingStrategy
    /\ _token_counter = 0
    /\ NoCall
    /\ ReversibleInit
    /\ statistics \in {NoStatistics, NewStatistics}
    /\ calls_since = 0
    /\ returned_since = 0
    /\ CallersIdle
    /\ NoQuery
    /\ NoCalc
    /\ NoScan

\* PIIDetector.reset_statistics
ResetStatistics ==
    /\ statistics' = reset_statistics(statistics)
    /\ calls_since' = 0
    /\ returned_since' = 0
    /\ last_call' = "reset_statistics"
    /\ UNCHANGED <<requested_types, threshold, final_matches, candidates, masked_text>>
    /\ UNCHANGED detector_vars
    /\ UNCHANGED reversible_vars
    /\ UNCHANGED caller_vars
    /\ UNCHANGED query_vars
    /\ UNCHANGED calc_vars
    /\ UNCHANGED scan_vars
    /\ UNCHANGED masker_vars

StatsNext ==
    \/ \E types \in TypeFilters : Detect(types)
    \/ MaskTextDetecting
    \/ MaskTextGiven
    \/ ResetStatistics
    \/ \E strategy \in ConfigAllStrategies : SetAllMaskingStrategies(strategy)

StatsSpec == StatsInit /\ [][StatsNext]_vars

-----------------------------------------------------------------------------
(* The MaskingConfig on its own.                                             *)

\* the arguments of set_strategy and set_all_strategies
SetTypes == {"EMAIL", "ADDRESS", "TAX_ID"}
SetStrategies == MaskingStrategies

\* MaskingConfig.__init__
ConfigInit ==
    /\ input_text = ""
    /\ enable_context_validation = TRUE
    /\ enable_strict_validation = TRUE
    /\ strategies = DefaultStrategies
    /\ default_strategy = DefaultMaskingStrategy
    /\ _token_counter = 0
    /\ NoCall
    /\ ReversibleInit
    /\ StatisticsOff
    /\ CallersIdle
    /\ NoQuery
    /\ NoCalc
    /\ NoScan

ConfigNext ==
    \/ \E pii_type \in SetTypes : \E strategy \in SetStrategies :
          SetMaskingStrategy(pii_type, strategy)
    \/ \E strategy \in SetStrategies : SetAllMaskingStrategies(strategy)

ConfigSpec == ConfigInit /\ [][ConfigNext]_vars

-----------------------------------------------------------------------------
(* The validators and the masker applied to one value.                       *)

\* card numbers: every ending of a sixteen-digit number, numbers of other
\* lengths and with separators and letters, and values with a superscript
\* digit
CardInputs ==
    {"41111111111111" \o a \o b : a \in Digits, b \in Digits}
    \cup {"4111-1111-1111-1111", "4532 0151 1283 0366", "4532148803436467",
          "4222222222222", "422222222222", "0000000000000",
          "6011000990139424000", "60110009901394240000", "4111x1111111111111",
          "4111111111111111²", "¹"}

\* social security numbers around every limit of validate_ssn, plain and
\* with hyphens, values that are not nine digits, and values with a
\* superscript digit
SsnInputs ==
    {area \o sep \o group \o sep \o serial :
        area \in {"000", "001", "665", "666", "667", "733", "734", "749", "750",
                  "899", "900", "999"},
        group \in {"00", "01", "45"},
        serial \in {"0000", "0001", "6789"},
        sep \in {"", "-"}}
    \cup {"", "12345678", "1234567890", "12345678a", "123 45 6789", "123-45-678 9",
          "12345678²", "³23-45-6789", "1234567²"}

\* the parts a date is written with
\* phone numbers of ten digits with an area code at each limit, of other
\* lengths, and with a superscript digit
PhoneInputs ==
    {"2125551234", "(212) 555-1234", "1995551234", "9115551234", "9885551234",
     "12125551234", "123456789", "1234567890123456", "1234567890²", "²123456789",
     "212555123³"}

DateParts == {"", "1", "05", "13", "15", "32", "123", "1985", "2026", "+5"}

\* dates: three parts with one separator
DateInputs ==
    {a \o sep \o b \o sep \o c :
        a \in DateParts, b \in DateParts, c \in DateParts, sep \in {"/", "-"}}
    \cup {"05/15", "05/15/1985/1", "05.15.1985", "05/15-1985"}

\* e-mail addresses with local parts of one to six characters
EmailInputs ==
    {"j@example.com", "jo@example.com", "joh@example.com", "john@example.com",
     "johnd@example.com", "johndo@example.com", "john", "a@b@c"}

\* one value is given
PureStart(inputs) ==
    /\ input_text \in inputs
    /\ enable_context_validation = TRUE
    /\ enable_strict_validation = TRUE
    /\ strategies = DefaultStrategies
    /\ default_strategy = DefaultMaskingStrategy
    /\ _token_counter = 0
    /\ NoCall
    /\ ReversibleInit
    /\ StatisticsOff
    /\ CallersIdle
    /\ NoQuery
    /\ NoCalc
    /\ NoScan

\* what a validator call leaves as it is
validator_frame ==
    <<config_call, requested_types, threshold, final_matches, candidates, masked_text,
      detector_vars, reversible_vars, stats_vars, caller_vars, calc_vars, scan_vars,
      masker_vars>>

\* PIIValidator.validate_credit_card(input_text)
ValidateCreditCard ==
    /\ verdict' = validate_credit_card(input_text)
    /\ last_call' = "validate_credit_card"
    /\ UNCHANGED validator_frame

\* PIIValidator.validate_ssn(input_text)
ValidateSsn ==
    /\ verdict' = validate_ssn(input_text)
    /\ last_call' = "validate_ssn"
    /\ UNCHANGED validator_frame

\* PIIValidator.validate_date_of_birth(input_text)
ValidatePhone ==
    /\ verdict' = validate_phone(input_text)
    /\ last_call' = "validate_phone"
    /\ UNCHANGED validator_frame

ValidateDateOfBirth ==
    /\ verdict' = Returns(validate_date_of_birth(input_text))
    /\ last_call' = "validate_date_of_birth"
    /\ UNCHANGED validator_frame

\* PIIMasker().mask(input_text, PIIType.EMAIL, MaskingStrategy.PARTIAL)
MaskEmailPartial ==
    /\ \E r \in {Mask(default_strategy, input_text, "EMAIL", "PARTIAL", _token_counter)} :
          /\ masked_text' = r.masked
          /\ _token_counter' = r.counter
    /\ last_call' = "mask"
    /\ UNCHANGED <<requested_types, threshold, final_matches, candidates>>
    /\ UNCHANGED <<input_text, enable_context_validation, enable_strict_validation,
                   strategies>>
    /\ UNCHANGED reversible_vars
    /\ UNCHANGED stats_vars
    /\ UNCHANGED caller_vars
    /\ UNCHANGED query_vars
    /\ UNCHANGED calc_vars
    /\ UNCHANGED scan_vars
    /\ UNCHANGED masker_vars

PureInit == PureStart(DateInputs \cup EmailInputs)

PureNext ==
    \/ ValidateDateOfBirth
    \/ MaskEmailPartial

PureSpec == PureInit /\ [][PureNext]_vars

\* the validators that convert with int(), each called on a card number, a
\* social security number or a phone number
ValidatorInit == PureStart(CardInputs \cup SsnInputs \cup PhoneInputs)

ValidatorNext ==
    \/ ValidateCreditCard
    \/ ValidateSsn
    \/ ValidatePhone

ValidatorSpec == ValidatorInit /\ [][ValidatorNext]_vars

-----------------------------------------------------------------------------
(* The ConfidenceCalculator on its own.                                      *)

\* the base confidences given to it: 0.00, 0.05, ... 1.00
ConfidenceBases == {500 * k : k \in 0..20}

ConfidenceInit ==
    /\ input_text = ""
    /\ enable_context_validation = TRUE
    /\ enable_strict_validation = TRUE
    /\ strategies = DefaultStrategies
    /\ default_strategy = DefaultMaskingStrategy
    /\ _token_counter = 0
    /\ NoCall
    /\ ReversibleInit
    /\ StatisticsOff
    /\ CallersIdle
    /\ NoQuery
    /\ NoCalc
    /\ NoScan

\* ConfidenceCalculator.adjust_confidence(base_confidence, context_match,
\* validation_passed, length_appropriate)
AdjustConfidence(base_confidence, context_match, validation_passed, length_appropriate) ==
    /\ adjustment' =
          [base_confidence |-> base_confidence, context_match |-> context_match,
           validation_passed |-> validation_passed,
           length_appropriate |-> length_appropriate,
           result |-> adjust_confidence(base_confidence, context_match,
                                        validation_passed, length_appropriate)]
    /\ last_call' = "adjust_confidence"
    /\ UNCHANGED masked_type
    /\ UNCHANGED <<requested_types, threshold, final_matches, candidates, masked_text>>
    /\ UNCHANGED detector_vars
    /\ UNCHANGED reversible_vars
    /\ UNCHANGED stats_vars
    /\ UNCHANGED caller_vars
    /\ UNCHANGED query_vars
    /\ UNCHANGED scan_vars
    /\ UNCHANGED masker_vars

ConfidenceNext ==
    \E base_confidence \in ConfidenceBases :
        \E context_match \in BOOLEAN, validation_passed \in BOOLEAN,
           length_appropriate \in BOOLEAN :
            AdjustConfidence(base_confidence, context_match, validation_passed,
                             length_appropriate)

ConfidenceSpec == ConfidenceInit /\ [][ConfidenceNext]_vars

-----------------------------------------------------------------------------
(* The type-specific PARTIAL masking routines on empty, short and malformed  *)
(* values.                                                                   *)

\* the values given to them
PartialInputs ==
    {"", " ", "*", "1", "12-", "1-2 3", "123", "1234", "12ab", "a*b", "abcd",
     "notanemail", "a@b@c", "@", "EMAIL", "PHONE", "NAME", "john@example.com",
     "555-12", "Al", "12²4", "1² 3"}

\* the types _mask_partial has a routine for
PartialTypes == {"CREDIT_CARD", "SSN", "EMAIL", "PHONE", "PERSON_NAME", "BANK_ACCOUNT"}

PartialInit ==
    /\ input_text \in PartialInputs
    /\ enable_context_validation = TRUE
    /\ enable_strict_validation = TRUE
    /\ strategies = DefaultStrategies
    /\ default_strategy = DefaultMaskingStrategy
    /\ _token_counter = 0
    /\ NoCall
    /\ ReversibleInit
    /\ StatisticsOff
    /\ CallersIdle
    /\ NoQuery
    /\ NoCalc
    /\ NoScan

\* PIIMasker().mask(input_text, pii_type, MaskingStrategy.PARTIAL)
MaskPartial(pii_type) ==
    /\ \E r \in {Mask(default_strategy, input_text, pii_type, "PARTIAL", _token_counter)} :
          /\ masked_text' = r.masked
          /\ _token_counter' = r.counter
    /\ masked_type' = pii_type
    /\ last_call' = "mask"
    /\ UNCHANGED adjustment
    /\ UNCHANGED <<requested_types, threshold, final_matches, candidates>>
    /\ UNCHANGED <<input_text, enable_context_validation, enable_strict_validation,
                   strategies>>
    /\ UNCHANGED reversible_vars
    /\ UNCHANGED stats_vars
    /\ UNCHANGED caller_vars
    /\ UNCHANGED query_vars
    /\ UNCHANGED scan_vars
    /\ UNCHANGED masker_vars

PartialNext == \E pii_type \in PartialTypes : MaskPartial(pii_type)

PartialSpec == PartialInit /\ [][PartialNext]_vars

-----------------------------------------------------------------------------
(* The while loop of _detect_names, one round at a time, on every text of up *)
(* to MaxTokens tokens of a small vocabulary.                                *)

\* the longest text, in tokens
MaxTokens == 4

\* an honorific, a common first name with and without a capital, a
\* capitalized word, a word without a capital, a suffix
Vocabulary == {"Dr.", "John", "mary", "Smith", "saw", "Jr."}

RECURSIVE TextsOf(_)
\* the texts of n tokens with one space between them
TextsOf(n) ==
    IF n = 1 THEN Vocabulary
    ELSE {t \o " " \o w : t \in TextsOf(n - 1), w \in Vocabulary}

NameTexts == UNION {TextsOf(n) : n \in 1..MaxTokens}

\* "matches = []; words = text.split(); i = 0"
NameInit ==
    /\ input_text \in NameTexts
    /\ enable_context_validation \in BOOLEAN
    /\ enable_strict_validation = TRUE
    /\ strategies = DefaultStrategies
    /\ default_strategy = DefaultMaskingStrategy
    /\ _token_counter = 0
    /\ NoCall
    /\ ReversibleInit
    /\ StatisticsOff
    /\ CallersIdle
    /\ NoQuery
    /\ NoCalc
    /\ NoScan

\* one round of "while i < len(words)"; candidates is matches
NameIteration ==
    /\ cursor < Len(Split(input_text))
    /\ \E r \in {NameStep(Detector, input_text, Split(input_text), cursor, _token_counter)} :
          /\ candidates' = candidates \o r.matches
          /\ _token_counter' = r.counter
          /\ cursor' = r.next
          /\ consumed' = IF Len(r.matches) > 0
                         THEN consumed \cup (cursor..(r.next - 1)) ELSE consumed
    /\ examined' = examined \cup {cursor}
    /\ last_call' = "_detect_names"
    /\ UNCHANGED <<requested_types, threshold, final_matches, masked_text>>
    /\ UNCHANGED <<input_text, enable_context_validation, enable_strict_validation,
                   strategies>>
    /\ UNCHANGED reversible_vars
    /\ UNCHANGED stats_vars
    /\ UNCHANGED caller_vars
    /\ UNCHANGED query_vars
    /\ UNCHANGED calc_vars
    /\ UNCHANGED masker_vars

NameNext == NameIteration

\* the condition of the while loop; a round always moves the cursor, so this
\* is when a round can be taken
NameRunning == cursor < Len(Split(input_text))

\* weak fairness of the round, with the loop condition for its enabledness:
\* the loop goes on while its condition holds
NameFairness == []<>(~NameRunning) \/ []<><<NameIteration>>_vars

NameSpec == NameInit /\ [][NameNext]_vars /\ NameFairness

-----------------------------------------------------------------------------
(* Detection and masking of texts in which a name is written twice.          *)

\* the names, and what stands between and after the two of a text
RepeatNames == {"John Smith", "Dr. Amy Lee", "Mr. Émile Zola"}
RepeatMiddles == {" saw ", " lives at 12 "}
RepeatEndings == {"", " Street"}

RepeatTexts ==
    {a \o mid \o b \o ending :
        a \in RepeatNames, b \in RepeatNames, mid \in RepeatMiddles, ending \in RepeatEndings}

\* PIIDetector.__init__ with the defaults, or with context validation off
RepeatInit ==
    /\ input_text \in RepeatTexts
    /\ enable_context_validation \in BOOLEAN
    /\ enable_strict_validation = TRUE
    /\ strategies = DefaultStrategies
    /\ default_strategy = DefaultMaskingStrategy
    /\ _token_counter = 0
    /\ NoCall
    /\ ReversibleInit
    /\ StatisticsOff
    /\ CallersIdle
    /\ NoQuery
    /\ NoCalc
    /\ NoScan

RepeatNext ==
    \/ Detect(NoTypes)
    \/ MaskTextDetecting

RepeatSpec == RepeatInit /\ [][RepeatNext]_vars

-----------------------------------------------------------------------------
(* The regex pass of detect_all on texts that hold one value each.           *)

PatternTexts ==
    {"4111 1111 1111 1111", "4111111111111112", "378282246310005", "6011-1111-1111-1117",
     "734-56-7890", "856432190", "a@b.co", "555-987-6543", "192.168.1.1", "05/15/1985",
     "AB1234567", "A1234567", "12-3456789", "12345678", "é856432190", "÷856432190",
     "555-987-6543²"}

PatternInit ==
    /\ input_text \in PatternTexts
    /\ enable_context_validation \in BOOLEAN
    /\ enable_strict_validation \in BOOLEAN
    /\ strategies = DefaultStrategies
    /\ default_strategy = DefaultMaskingStrategy
    /\ _token_counter = 0
    /\ NoCall
    /\ ReversibleInit
    /\ StatisticsOff
    /\ CallersIdle
    /\ NoQuery
    /\ NoCalc
    /\ NoScan

PatternNext == Detect(NoTypes)

PatternSpec == PatternInit /\ [][PatternNext]_vars

-----------------------------------------------------------------------------
(* detect_all with and without a type filter, on values that patterns of     *)
(* several types match.                                                      *)

FilterTexts ==
    {"856432190", "A1234567", "12-3456789", "4111111111111111", "Dr. John Smith a@b.co",
     "no pii here"}

\* pii_types arguments
FilterChoices ==
    {NoTypes, TypeList(<<>>), TypeList(<<"DRIVER_LICENSE">>),
     TypeList(<<"TAX_ID", "BANK_ACCOUNT">>), TypeList(<<"PERSON_NAME", "EMAIL">>)}

FilterInit ==
    /\ input_text \in FilterTexts
    /\ enable_context_validation \in BOOLEAN
    /\ enable_strict_validation \in BOOLEAN
    /\ strategies = DefaultStrategies
    /\ default_strategy = DefaultMaskingStrategy
    /\ _token_counter = 0
    /\ NoCall
    /\ ReversibleInit
    /\ StatisticsOff
    /\ CallersIdle
    /\ NoQuery
    /\ NoCalc
    /\ NoScan

FilterNext == \E types \in FilterChoices : Detect(types)

FilterSpec == FilterInit /\ [][FilterNext]_vars

-----
(* Properties                                                                *)

\* C1: every PIIMatch detect_all returned (pattern-based, name and address
\* matches alike) has text[start:end] == value and
\* 0 <= start < end <= len(text).
C1_SpanIsValue ==
    \A i \in 1..Len(final_matches) :
        LET m == final_matches[i]
        IN  /\ 0 <= m.start
            /\ m.start < m.end
            /\ m.end <= Len(input_text)
            /\ Slice(input_text, m.start, m.end) = m.value

\* detect_all has returned a name, an address or a pattern-based match, two of
\* them at least
C1_Witness ==
    /\ last_call = "detect_all"
    /\ \E i, j \in 1..Len(final_matches) :
          /\ final_matches[i].pii_type = "PERSON_NAME"
          /\ final_matches[j].pii_type \in {"EMAIL", "ADDRESS"}

\* C2: the matches detect_all returns are pairwise non-overlapping as
\* half-open intervals [start, end) and sorted ascending by start, whatever
\* candidate spans the scanners produced.
C2_NonOverlappingSorted ==
    \A i, j \in 1..Len(final_matches) :
        i < j =>
            /\ final_matches[i].start <= final_matches[j].start
            /\ final_matches[i].end <= final_matches[j].start

\* three candidates passed the threshold, overlapping ones among them, and
\* two were returned
C2_Witness ==
    /\ last_call = "detect_all"
    /\ Len(FilterByThreshold(candidates, threshold)) = 3
    /\ Len(final_matches) = 2
    /\ \E i, j \in 1..Len(candidates) :
          /\ i # j
          /\ candidates[i].start < candidates[j].end
          /\ candidates[j].start < candidates[i].end

\* detect_all follows detect_all with the same confidence_threshold and
\* pii_types; text and configuration are those of the one Detector
SameArguments ==
    /\ last_call = "detect_all"
    /\ last_call' = "detect_all"
    /\ requested_types' = requested_types
    /\ threshold' = threshold

\* C3 as stated: two consecutive detect_all calls with identical text,
\* threshold and type filter return identical match sequences, masked_value
\* fields included, under every masking configuration.
C3_Original == [][SameArguments => final_matches' = final_matches]_vars

\* a match that carries a token: one of a regex pattern, whose type is
\* configured TOKENIZE
IssuesToken(m) ==
    /\ m.pii_type \notin {"PERSON_NAME", "ADDRESS"}
    /\ get_strategy(strategies, m.pii_type) = "TOKENIZE"

\* C3: two consecutive detect_all calls with identical text, threshold and
\* type filter return sequences that agree in pii_type, value, start, end and
\* confidence under every masking configuration, and in masked_value too
\* for every match but those of a regex pattern whose type is configured
\* TOKENIZE; such a match carries in each call a token of its type with a
\* value of the masker's counter, and in the second call a higher one.
C3_SameMatchesButTokens ==
    [][SameArguments =>
          /\ Len(final_matches') = Len(final_matches)
          /\ \A i \in 1..Len(final_matches) :
                LET m == final_matches[i]
                    n == final_matches'[i]
                IN  /\ n.pii_type = m.pii_type
                    /\ n.value = m.value
                    /\ n.start = m.start
                    /\ n.end = m.end
                    /\ n.confidence = m.confidence
                    /\ IF IssuesToken(m)
                       THEN \E j \in 1.._token_counter :
                               \E k \in (_token_counter + 1).._token_counter' :
                                  /\ m.masked_value = TokenFor(m.pii_type, j)
                                  /\ n.masked_value = TokenFor(m.pii_type, k)
                                  /\ n.masked_value # m.masked_value
                       ELSE n.masked_value = m.masked_value]_vars

\* detect_all has been called a second time under REDACT for every type
\* but EMAIL and TOKENIZE for EMAIL: the two e-mail addresses carry the
\* third and the fourth token, the name beside them the mask it had in the
\* first call
C3_Witness ==
    /\ last_call = "detect_all"
    /\ strategies
          = set_strategy(set_all_strategies(DefaultStrategies, "REDACT"), "EMAIL", "TOKENIZE")
    /\ _token_counter = 4
    /\ \E h, i, j \in 1..Len(final_matches) :
          /\ IssuesToken(final_matches[h])
          /\ final_matches[h].masked_value = TokenFor("EMAIL", 3)
          /\ IssuesToken(final_matches[i])
          /\ final_matches[i].masked_value = TokenFor("EMAIL", 4)
          /\ final_matches[j].pii_type = "PERSON_NAME"
          /\ final_matches[j].masked_value = "D*** J*** S***"

\* C4: for the same text, type filter and configuration, detect_all at a
\* threshold that is not lower returns no more matches, and at one that is
\* not higher no fewer.
C4_MonotonicFiltering ==
    [][(/\ last_call = "detect_all"
        /\ last_call' = "detect_all"
        /\ requested_types' = requested_types) =>
          /\ threshold' >= threshold => Len(final_matches') <= Len(final_matches)
          /\ threshold' <= threshold => Len(final_matches') >= Len(final_matches)]_vars

\* detect_all at the higher threshold has returned matches, fewer than the
\* lower threshold gives for the same candidates
C4_Witness ==
    /\ last_call = "detect_all"
    /\ threshold = 8000
    /\ Len(final_matches) > 0
    /\ Len(final_matches) < Len(FinalMatches(candidates, 5000))

\* C5: mask_text returns the text in which each span [start, end) of the
\* given non-overlapping matches is replaced by that match's stored
\* masked_value, whatever strategy is configured by then, and every character
\* outside the spans is kept, in order; with no matches it returns the text
\* unchanged.
C5_MaskReplacesSpans ==
    last_call = "mask_text" =>
        LET RECURSIVE Rebuilt(_, _)
            \* the text from offset pos on, with the matches from the i-th on
            \* replaced, from left to right
            Rebuilt(i, pos) ==
                IF i > Len(final_matches) THEN Slice(input_text, pos, Len(input_text))
                ELSE Slice(input_text, pos, final_matches[i].start)
                     \o final_matches[i].masked_value
                     \o Rebuilt(i + 1, final_matches[i].end)
        IN  /\ masked_text = Rebuilt(1, 0)
            /\ Len(final_matches) = 0 => masked_text = input_text

\* mask_text has replaced two spans or more, one of them by a masked_value
\* that is not what the strategy configured by now gives
C5_Witness ==
    /\ last_call = "mask_text"
    /\ Len(final_matches) >= 2
    /\ masked_text # input_text
    /\ \E i \in 1..Len(final_matches) :
          /\ final_matches[i].pii_type = "EMAIL"
          /\ get_strategy(strategies, "EMAIL") = "TOKENIZE"
          /\ final_matches[i].masked_value = _mask_partial(final_matches[i].value, "EMAIL")

\* C6: every match detect_all returns has the masked_value the masker gives
\* for its value under the strategy configured for its type in the
\* MaskingConfig, PERSON_NAME and ADDRESS included (under TOKENIZE: a token of
\* that type that the masker has issued).
C6_ConfiguredStrategy ==
    last_call = "detect_all" =>
        \A i \in 1..Len(final_matches) :
            LET m == final_matches[i]
                strategy == get_strategy(strategies, m.pii_type)
            IN  IF strategy = "TOKENIZE"
                THEN \E k \in 1.._token_counter : m.masked_value = TokenFor(m.pii_type, k)
                ELSE m.masked_value = Mask(default_strategy, m.value, m.pii_type, strategy, 0).masked

\* C7: when a collection of types is supplied as pii_types, the empty one
\* included, every match detect_all returns has a pii_type of the collection.
C7_FilterRestricts ==
    (last_call = "detect_all" /\ ~requested_types.is_none) =>
        \A i \in 1..Len(final_matches) :
            InList(final_matches[i].pii_type, requested_types)

\* the regex matches of the k-th pattern in the text
SpansOfPattern(k) ==
    LET spans == FindIter(Patterns[k].pattern, input_text, FALSE)
    IN  {spans[n] : n \in 1..Len(spans)}

\* the regex matches of the patterns of type t that the filter lets through
RegexSpans(t) ==
    UNION {SpansOfPattern(k) : k \in {k \in 1..Len(Patterns) :
                                        /\ Patterns[k].pii_type = t
                                        /\ ~SkipsPattern(Patterns[k], requested_types)}}

\* all_matches holds a candidate of type t for the span sp
IsCandidate(t, sp) ==
    \E i \in 1..Len(candidates) :
        /\ candidates[i].pii_type = t
        /\ candidates[i].start = sp.start
        /\ candidates[i].end = sp.end

\* C8: with strict validation enabled every CREDIT_CARD match detect_all
\* returns passes the Luhn check and every SSN match the SSN rules, a regex
\* candidate that fails them being dropped; with strict validation disabled
\* every regex match is a candidate.
C8_StrictValidation ==
    last_call = "detect_all" =>
        /\ enable_strict_validation =>
              \A i \in 1..Len(final_matches) :
                  /\ final_matches[i].pii_type = "CREDIT_CARD"
                        => validate_credit_card(final_matches[i].value) = Returns(TRUE)
                  /\ final_matches[i].pii_type = "SSN"
                        => validate_ssn(final_matches[i].value) = Returns(TRUE)
        /\ ~enable_strict_validation =>
              \A t \in {"CREDIT_CARD", "SSN"} : \A sp \in RegexSpans(t) : IsCandidate(t, sp)

\* strict validation has dropped a card number that fails the Luhn check and
\* detect_all has returned one that passes it
C8_Witness ==
    /\ last_call = "detect_all"
    /\ enable_strict_validation
    /\ \E i \in 1..Len(final_matches) : final_matches[i].pii_type = "CREDIT_CARD"
    /\ \E sp \in RegexSpans("CREDIT_CARD") :
          /\ validate_credit_card(Slice(input_text, sp.start, sp.end)) = Returns(FALSE)
          /\ ~IsCandidate("CREDIT_CARD", sp)

\* C9: unmask gives back the value of every token mask has issued since the
\* mapping was last cleared, however many mask calls followed.
C9_RoundTrip == \A e \in live : unmask(_mapping, e[1]) = Some(e[2])

\* tokens were issued, then further ones up to the bound
C9_Witness ==
    /\ Cardinality(live) = MaxCounter
    /\ \E e, f \in live : e[2] # f[2]

\* C10: after clear_mapping, unmask returns None for every token issued
\* before the clear, in every state reached afterwards, further mask calls
\* included.
C10_ClearedStayUnknown == \A token \in revoked : unmask(_mapping, token) = None

\* C11: on one PIIMasker used by one caller at a time, the n-th TOKENIZE call
\* returns the token numbered n (from 1, padded to four digits); the counter
\* is the number of TOKENIZE calls made, and no two calls return the same
\* token
C11_SequentialTokens ==
    /\ _token_counter = Len(issued)
    /\ \A n \in 1..Len(issued) :
          \E t \in PIITypes :
              issued[n] = "[" \o t \o "_TOKEN_000" \o Decimal(n) \o "]"
    /\ \A i \in 1..Len(issued) : \A j \in 1..Len(issued) :
          i # j => issued[i] # issued[j]

\* three TOKENIZE calls were made, two of them for the same type, with a call
\* of another strategy as the last one
C11_Witness ==
    /\ Len(issued) = 3
    /\ issued[1] = "[EMAIL_TOKEN_0001]"
    /\ issued[3] = "[EMAIL_TOKEN_0003]"
    /\ last_call = "mask"
    /\ masked_text = "****************"

\* C12: when two callers run TOKENIZE masking at the same time on one shared
\* masker, no increment is lost (once both have returned, the counter is the
\* number of calls made) and no two calls receive the same token number
C12_AtomicIncrement ==
    /\ (\A c \in Callers : pc[c] = "idle") => _token_counter = Len(issued)
    /\ \A i \in 1..Len(issued) : \A j \in 1..Len(issued) :
          i # j => issued[i] # issued[j]

\* C13: with a collector, total_texts_processed is the number of detect_all
\* calls made since construction or the last reset_statistics (those made by
\* mask_text without matches included), total_detections is the number of
\* matches those calls returned and the sum of detections_by_type, and
\* reset_statistics leaves every counter at zero; without a collector
\* get_statistics returns None
C13_StatisticsCount ==
    /\ ~statistics.is_none =>
          /\ statistics.total_texts_processed = calls_since
          /\ statistics.total_detections = returned_since
          /\ statistics.total_detections = SumCounts(statistics.detections_by_type)
          /\ get_statistics(statistics).total_texts_processed = calls_since
          /\ get_statistics(statistics).total_detections = returned_since
    /\ (~statistics.is_none /\ last_call = "reset_statistics") =>
          /\ statistics.total_texts_processed = 0
          /\ statistics.total_detections = 0
          /\ statistics.detections_by_type = EmptyCounts
          /\ statistics.total_processing_time = 0
    /\ statistics.is_none => get_statistics(statistics).is_none

\* a collector has seen two calls, the second made by mask_text, which found
\* the same name and e-mail address again
C13_Witness ==
    /\ ~statistics.is_none
    /\ calls_since = 2
    /\ last_call = "mask_text"
    /\ Len(final_matches) = 2
    /\ returned_since > 2
    /\ \E t \in DOMAIN statistics.detections_by_type :
          statistics.detections_by_type[t] = 2

\* C14: after set_strategy(T, S) get_strategy(T) is S and get_strategy of every
\* other type is what it was; after set_all_strategies(S) get_strategy is S for
\* all twelve types; a fresh config gives PARTIAL for CREDIT_CARD, SSN, EMAIL,
\* PHONE, PERSON_NAME and BANK_ACCOUNT and FULL for the other types
C14_ConfigFrame ==
    /\ [](last_call = "__init__" =>
            /\ \A t \in {"CREDIT_CARD", "SSN", "EMAIL", "PHONE", "PERSON_NAME",
                          "BANK_ACCOUNT"} : get_strategy(strategies, t) = "PARTIAL"
            /\ \A t \in {"ADDRESS", "IP_ADDRESS", "DATE_OF_BIRTH", "PASSPORT",
                          "DRIVER_LICENSE", "TAX_ID"} : get_strategy(strategies, t) = "FULL")
    /\ [][(last_call' = "set_masking_strategy" =>
               /\ get_strategy(strategies', config_call'.pii_type) = config_call'.strategy
               /\ \A t \in PIITypes \ {config_call'.pii_type} :
                     get_strategy(strategies', t) = get_strategy(strategies, t))
           /\
           (last_call' = "set_all_masking_strategies" =>
               /\ Cardinality(PIITypes) = 12
               /\ \A t \in PIITypes :
                     get_strategy(strategies', t) = config_call'.strategy)]_vars

\* set_strategy was called last, for EMAIL, after a set_all_strategies(REDACT)
\* and a set_strategy for TAX_ID
C14_Witness ==
    /\ last_call = "set_masking_strategy"
    /\ config_call = [pii_type |-> "EMAIL", strategy |-> "HASH"]
    /\ get_strategy(strategies, "EMAIL") = "HASH"
    /\ get_strategy(strategies, "TAX_ID") = "TOKENIZE"
    /\ get_strategy(strategies, "SSN") = "REDACT"

\* C15: a detect_all or mask_text call leaves the MaskingConfig and the two
\* flags as they were (the pattern list and the registry are constants of the
\* model, no call writes them); the token counter moves only when some
\* candidate of the call was masked with a TOKENIZE token, and by one per
\* token; the statistics change only when there is a collector, which keeps
\* counts and no match
C15_DetectFrame ==
    [][last_call' \in {"detect_all", "mask_text"} =>
          /\ strategies' = strategies
          /\ enable_context_validation' = enable_context_validation
          /\ enable_strict_validation' = enable_strict_validation
          /\ _token_counter' >= _token_counter
          /\ \A n \in (_token_counter + 1).._token_counter' :
                \E i \in 1..Len(candidates') :
                    /\ get_strategy(strategies, candidates'[i].pii_type) = "TOKENIZE"
                    /\ candidates'[i].masked_value = TokenFor(candidates'[i].pii_type, n)
          /\ statistics.is_none => statistics' = statistics
          /\ DOMAIN statistics' = DOMAIN NewStatistics
          /\ DOMAIN statistics'.detections_by_type \subseteq PIITypes]_vars

\* a detector with a collector and every strategy TOKENIZE has issued a token
\* in its second counted call
C15_Witness ==
    /\ last_call = "detect_all"
    /\ ~statistics.is_none
    /\ calls_since = 2
    /\ _token_counter > 0
    /\ \E i \in 1..Len(final_matches) :
          final_matches[i].masked_value = TokenFor("EMAIL", _token_counter)

\* the Luhn total of a string of digits: the digit at 0-based offset k from
\* the right counts double, less 9 above 9, when k is odd
LuhnTotal(digits) ==
    LET n == Len(digits)
        Term(k) ==
            LET d == DigitVal(SubSeq(digits, n - k, n - k))
            IN  IF k % 2 = 0 THEN d ELSE IF 2 * d > 9 THEN 2 * d - 9 ELSE 2 * d
        RECURSIVE Total(_)
        Total(k) == IF k = n THEN 0 ELSE Term(k) + Total(k + 1)
    IN  Total(0)

\* s with the character at 0-based offset i replaced by c
ReplaceAt(s, i, c) == SubSeq(s, 1, i) \o c \o SubSeq(s, i + 2, Len(s))

\* C16: validate_credit_card strips what is not a digit 0 to 9, rejects when
\* the digits left number fewer than 13 or more than 19 and accepts exactly
\* when their Luhn total is divisible by 10, and so rejects every value that
\* differs from an accepted one in a single digit
C16_Luhn ==
    last_call = "validate_credit_card" =>
        /\ verdict =
              Returns(/\ Len(Keep(input_text, Digits)) \in 13..19
                      /\ LuhnTotal(Keep(input_text, Digits)) % 10 = 0)
        /\ verdict.val =>
              \A i \in OffsetsIn(input_text, Digits) :
                  \A c \in Digits \ {CharAt(input_text, i)} :
                      validate_credit_card(ReplaceAt(input_text, i, c)) = Returns(FALSE)

\* C17: validate_ssn returns true exactly when the value without white space
\* and hyphens is nine digits whose area is not 000, not 666, below 900 and
\* outside 734..749, whose group is not 00 and whose serial is not 0000
C17_SsnRules ==
    last_call = "validate_ssn" =>
        LET clean == Drop(input_text, WhiteSpace \cup {"-"})
            area == SubSeq(clean, 1, 3)
        IN  (verdict.ok /\ verdict.val) =
              /\ Len(clean) = 9
              /\ \A i \in 0..8 : CharAt(clean, i) \in Digits
              /\ area \notin {"000", "666"}
              /\ Head(area) # "9"
              /\ area \notin {"73" \o c : c \in {"4", "5", "6", "7", "8", "9"}}
              /\ area \notin {"74" \o c : c \in Digits}
              /\ SubSeq(clean, 4, 5) # "00"
              /\ SubSeq(clean, 6, 9) # "0000"

\* a number with hyphens just below the area range never issued was accepted
C17_Witness ==
    /\ last_call = "validate_ssn"
    /\ input_text = "733-45-6789"
    /\ verdict = Returns(TRUE)

\* C18: validate_date_of_birth returns true only for a value that splits on
\* "/" or "-" into exactly three parts, exactly one of them of length 4 and a
\* year in 1900..2025, the two others of length at most 2 and integers in
\* 1..31
C18_DateShape ==
    (last_call = "validate_date_of_birth" /\ verdict.val) =>
        LET parts == SplitOn(input_text, {"/", "-"})
        IN  /\ Len(parts) = 3
            /\ Cardinality({j \in 1..3 : Len(parts[j]) = 4}) = 1
            /\ \A j \in 1..3 :
                  IF Len(parts[j]) = 4
                  THEN ParseInt(parts[j]).ok /\ ParseInt(parts[j]).val \in 1900..2025
                  ELSE /\ Len(parts[j]) <= 2
                       /\ ParseInt(parts[j]).ok
                       /\ ParseInt(parts[j]).val \in 1..31

\* C19: validate_date_of_birth accepts only the layouts MM/DD/YYYY and
\* DD/MM/YYYY: the year is the last part and one of the two parts before it
\* is a month, 1..12
C19_DateLayout ==
    (last_call = "validate_date_of_birth" /\ verdict.val) =>
        LET parts == SplitOn(input_text, {"/", "-"})
        IN  /\ Len(parts) = 3
            /\ Len(parts[3]) = 4
            /\ \E j \in 1..2 : ParseInt(parts[j]).ok /\ ParseInt(parts[j]).val \in 1..12

\* C20: PARTIAL masking of an e-mail address whose local part has four
\* characters shows the first and the last of them and keeps the domain
C20_EmailFourChars ==
    (last_call = "mask" /\ input_text = "john@example.com") =>
        masked_text = "j***n@example.com"

\* C21: adjust_confidence adds 0.1 to the base, capped at 1.0, when the
\* context matches, then halves the value when validation failed, then
\* multiplies it by 0.7 when the length is not appropriate; the result lies in
\* [0, 1]
C21_AdjustOrder ==
    last_call = "adjust_confidence" =>
        LET boosted == IF adjustment.context_match
                       THEN (IF adjustment.base_confidence + 1000 > 10000 THEN 10000
                             ELSE adjustment.base_confidence + 1000)
                       ELSE adjustment.base_confidence
            halves == IF adjustment.validation_passed THEN 10 ELSE 5
            tenths == IF adjustment.length_appropriate THEN 10 ELSE 7
        IN  /\ adjustment.result * 100 = boosted * halves * tenths
            /\ adjustment.result \in 0..10000

\* a base of 0.95 with a matching context was capped at 1.0 before both
\* penalties were applied
C21_Witness ==
    /\ last_call = "adjust_confidence"
    /\ adjustment.base_confidence = 9500
    /\ adjustment.context_match
    /\ ~adjustment.validation_passed
    /\ ~adjustment.length_appropriate
    /\ adjustment.result = 3500

\* the empty and malformed values of the claim: fewer than four characters
\* once the separators are removed, fewer than four digits 0 to 9, not
\* exactly one "@", no token
Malformed(value, pii_type) ==
    CASE pii_type \in {"CREDIT_CARD", "SSN"} ->
            Len(Drop(value, WhiteSpace \cup {"-"})) < 4
      [] pii_type \in {"PHONE", "BANK_ACCOUNT"} -> Len(Keep(value, Digits)) < 4
      [] pii_type = "EMAIL" -> Cardinality(OffsetsIn(value, {"@"})) # 1
      [] pii_type = "PERSON_NAME" -> Drop(value, WhiteSpace) = ""

Placeholder(pii_type) ==
    CASE pii_type \in {"CREDIT_CARD", "BANK_ACCOUNT"} -> "****"
      [] pii_type = "SSN" -> "***-**-****"
      [] pii_type = "EMAIL" -> "[EMAIL]"
      [] pii_type = "PHONE" -> "[PHONE]"
      [] pii_type = "PERSON_NAME" -> "[NAME]"

\* C22: on such a value the PARTIAL routine of the type returns its
\* placeholder, and no character of the value appears in what is returned
C22_PlaceholderNoInputChar ==
    (last_call = "mask" /\ Malformed(input_text, masked_type)) =>
        /\ masked_text = Placeholder(masked_type)
        /\ \A i \in 0..(Len(input_text) - 1) : ~Contains(masked_text, CharAt(input_text, i))

\* the elements of a list
Elements(list) == {list[k] : k \in 1..Len(list)}

\* the candidates resolve_overlaps is given, in the order it processes them
Processed == SortedBy(FilterByThreshold(candidates, threshold), TRUE)

\* the matches accepted once the first k candidates have been processed
AcceptedAfter(k) == Elements(ResolveLoop(<<>>, SubSeq(Processed, 1, k)))

\* C23: candidates are processed by ascending start and, at equal start,
\* descending confidence; one that overlaps an accepted match replaces it when
\* its confidence is strictly higher and is dropped otherwise, one that
\* overlaps no accepted match is accepted; the output is a subset of the input
C23_ResolveRule ==
    last_call = "detect_all" =>
        /\ \A k \in 1..(Len(Processed) - 1) :
              \/ Processed[k].start < Processed[k + 1].start
              \/ /\ Processed[k].start = Processed[k + 1].start
                 /\ Processed[k].confidence >= Processed[k + 1].confidence
        /\ \A k \in 1..Len(Processed) :
              LET c == Processed[k]
                  hit == {a \in AcceptedAfter(k - 1) : a.start < c.end /\ c.start < a.end}
              IN  /\ hit = {} => AcceptedAfter(k) = AcceptedAfter(k - 1) \cup {c}
                  /\ (\E a \in hit : c.confidence > a.confidence) =>
                        \E a \in hit : AcceptedAfter(k) = (AcceptedAfter(k - 1) \ {a}) \cup {c}
                  /\ (hit # {} /\ \A a \in hit : c.confidence <= a.confidence) =>
                        AcceptedAfter(k) = AcceptedAfter(k - 1)
        /\ Elements(final_matches) = AcceptedAfter(Len(Processed))
        /\ Elements(final_matches) \subseteq Elements(candidates)

\* of two overlapping candidates of equal confidence the second was dropped,
\* and a third of higher confidence then replaced the first
C23_Witness ==
    /\ last_call = "detect_all"
    /\ threshold = 5000
    /\ Len(Processed) = 3
    /\ Processed[1].confidence = 6000 /\ Processed[1].start = 0 /\ Processed[1].end = 2
    /\ Processed[2].confidence = 6000 /\ Processed[2].start = 0 /\ Processed[2].end = 1
    /\ Processed[3].confidence = 9000 /\ Processed[3].start = 1
    /\ final_matches = <<Processed[3]>>

\* C27: every candidate given to resolve_overlaps that is absent from its
\* output overlaps a match of the output whose confidence is at least its own
C27_NoSilentLoss ==
    last_call = "detect_all" =>
        \A c \in Elements(FilterByThreshold(candidates, threshold)) \ Elements(final_matches) :
            \E m \in Elements(final_matches) :
                /\ c.start < m.end
                /\ m.start < c.end
                /\ m.confidence >= c.confidence

\* the token at 0-based index i of the text, stripped and lower-cased as the
\* loop does
TokenAt(i) == LowerStr(Strip(Split(input_text)[i + 1], StripChars))

\* rule (a) is taken at the cursor: an honorific with a token after it
RuleA == TokenAt(cursor) \in PREFIXES /\ cursor + 1 < Len(Split(input_text))

\* rule (b) as the specification words it, at the cursor: a common first name
\* followed by a capitalized word of more than two characters
RuleB ==
    /\ ~RuleA
    /\ cursor + 1 < Len(Split(input_text))
    /\ TokenAt(cursor) \in COMMON_FIRST_NAMES
    /\ is_capitalized_word(Strip(Split(input_text)[cursor + 2], StripChars))
    /\ Len(Strip(Split(input_text)[cursor + 2], StripChars)) > 2

\* C24: every round of the name loop moves the cursor forward: under
\* rule (a) to the index after the last token taken, at most three tokens
\* after the honorific; by two under rule (b); by one otherwise.  Every token
\* taken into a candidate lies behind the cursor, and the loop ends
C24_CursorAdvances ==
    /\ [][last_call' = "_detect_names" =>
            /\ cursor' > cursor
            /\ cursor' <= Len(Split(input_text))
            /\ IF RuleA THEN cursor' <= cursor + 4
               ELSE IF RuleB THEN cursor' = cursor + 2
               ELSE cursor' = cursor + 1
            /\ cursor \notin consumed
            /\ \A t \in consumed' : t < cursor']_vars
    /\ <>(cursor = Len(Split(input_text)))

\* C25: when the token at the cursor is a common first name and not an
\* honorific, and the token after it is not a capitalized word of more than
\* two characters, the round appends no candidate and moves the cursor by
\* one, so that the token after it is the next one examined
C25_FirstNameAlone ==
    [][(/\ last_call' = "_detect_names"
        /\ cursor + 1 < Len(Split(input_text))
        /\ TokenAt(cursor) \in COMMON_FIRST_NAMES \ PREFIXES
        /\ ~RuleB)
       => /\ candidates' = candidates
          /\ cursor' = cursor + 1
          /\ cursor + 1 \notin examined'
          /\ examined' = examined \cup {cursor}]_vars

\* the name candidates of the last call
NameCandidates == {c \in Elements(candidates) : c.pii_type = "PERSON_NAME"}

\* the name strings the scan recognised at two token positions
RecognisedTwice ==
    {candidates[i].value : i \in {i \in 1..Len(candidates) :
        /\ candidates[i].pii_type = "PERSON_NAME"
        /\ \E j \in 1..(i - 1) : candidates[j] = candidates[i]}}

\* the offset of the second occurrence of value in the text
LaterOccurrence(value) == FindFrom(input_text, value, Find(input_text, value) + 1)

\* the returned matches that overlap the text from offset from to offset to
Covering(from, to) == {m \in Elements(final_matches) : m.start < to /\ from < m.end}

RECURSIVE Shift(_, _)
\* by how much replacing the matches of ms that end at or before offset
\* moves the text behind them
Shift(ms, offset) ==
    IF Len(ms) = 0 THEN 0
    ELSE (IF Head(ms).end <= offset
          THEN Len(Head(ms).masked_value) - (Head(ms).end - Head(ms).start) ELSE 0)
         + Shift(Tail(ms), offset)

\* the second occurrence of value stands in the output as it is
LaterUnchanged(value) ==
    Slice(masked_text, LaterOccurrence(value) + Shift(final_matches, LaterOccurrence(value)),
          LaterOccurrence(value) + Shift(final_matches, LaterOccurrence(value)) + Len(value))
        = value

\* the span of every name candidate is the first occurrence of its string,
\* and the returned matches hold a name string at most once
FirstOccurrenceOnly ==
    /\ \A c \in NameCandidates :
          /\ c.start = Find(input_text, c.value)
          /\ c.start >= 0
          /\ c.end = c.start + Len(c.value)
    /\ \A i, j \in 1..Len(candidates) :
          (candidates[i].pii_type = "PERSON_NAME" /\ candidates[i].value = candidates[j].value)
              => (candidates[i].start = candidates[j].start
                  /\ candidates[i].end = candidates[j].end)
    /\ \A i, j \in 1..Len(final_matches) :
          (final_matches[i].pii_type = "PERSON_NAME"
           /\ final_matches[i].value = final_matches[j].value) => i = j

\* C26 as stated: the span of every name candidate is the first occurrence of
\* its joined tokens; candidates of the same string have the same span;
\* detect_all returns at most one match for a name string; and mask_text
\* leaves the later occurrence of a name recognised twice as it is
C26_LaterOccurrenceKept ==
    (last_call \in {"detect_all", "mask_text"}) =>
        /\ FirstOccurrenceOnly
        /\ last_call = "mask_text" =>
              \A value \in RecognisedTwice :
                  /\ Covering(LaterOccurrence(value), LaterOccurrence(value) + Len(value)) = {}
                  /\ LaterUnchanged(value)

\* C26, amended: the same, but mask_text leaves the later occurrence as it
\* is only where no returned match covers it
C26_FirstOccurrence ==
    (last_call \in {"detect_all", "mask_text"}) =>
        /\ FirstOccurrenceOnly
        /\ last_call = "mask_text" =>
              \A value \in RecognisedTwice :
                  Covering(LaterOccurrence(value), LaterOccurrence(value) + Len(value)) = {}
                      => LaterUnchanged(value)

\* a name was recognised twice, masked once, and stands unmasked further on
C26_Witness ==
    /\ last_call = "mask_text"
    /\ input_text = "John Smith saw John Smith"
    /\ RecognisedTwice = {"John Smith"}
    /\ Len(final_matches) = 1
    /\ masked_text = "J*** S*** saw John Smith"

\* the candidates of the last call that the regex pass appended
PatternCandidates == {c \in Elements(candidates) : c.pii_type \notin {"PERSON_NAME", "ADDRESS"}}

\* C28: every match of a regex pattern carries the base confidence of a
\* pattern of its type that matches its span, and the confidence calculator
\* was given context_match false, validation_passed true and
\* length_appropriate true for it
C28_BaseConfidence ==
    last_call = "detect_all" =>
        \A c \in PatternCandidates :
            /\ \E k \in 1..Len(Patterns) :
                  /\ Patterns[k].pii_type = c.pii_type
                  /\ \E sp \in SpansOfPattern(k) : sp.start = c.start /\ sp.end = c.end
                  /\ IsValidCandidate(Detector, Patterns[k], c.value)
                  /\ c.confidence = Patterns[k].confidence
            /\ ~ContextMatch(Detector, input_text, c.start, c.end, c.pii_type)
            /\ LengthAppropriate(c.pii_type, c.value)

\* a card number of fifteen digits and one written with spaces were matched
\* with context validation on
C28_Witness ==
    /\ last_call = "detect_all"
    /\ enable_context_validation
    /\ input_text \in {"378282246310005", "4111 1111 1111 1111"}
    /\ \E c \in PatternCandidates : c.pii_type = "CREDIT_CARD" /\ c.confidence = 9500

\* C29: over the life of a ReversibleMasker, whatever mask and clear_mapping
\* calls are made, no token is issued twice: the tokens issued since the last
\* clear_mapping differ from one another and from every token issued before
\* it
C29_TokenIssuedOnce ==
    /\ \A e \in live : e[1] \notin revoked
    /\ \A e \in live : \A f \in live : e[1] = f[1] => e = f

\* m and u have the same type, span and confidence
SameMatch(m, u) ==
    /\ m.pii_type = u.pii_type
    /\ m.start = u.start
    /\ m.end = u.end
    /\ m.confidence = u.confidence

\* what detect_all without a type filter does with the text, the threshold
\* and the configuration of the last call
Unfiltered == detect_all(Detector, input_text, threshold, NoTypes, _token_counter)

\* C30 as stated: every match detect_all returns with a type filter is also
\* returned, with the same type, span and confidence, by detect_all without
\* a type filter on the same text, threshold and configuration
C30_FilterOnlyRemoves ==
    (last_call = "detect_all" /\ ~requested_types.is_none) =>
        \A m \in Elements(final_matches) :
            \E u \in Elements(Unfiltered.matches) : SameMatch(m, u)

\* C30, amended: every match detect_all returns with a type filter is, with
\* the same type, span and confidence, one of the candidates at or above
\* the threshold that detect_all without a type filter resolves
C30_FilterWithinCandidates ==
    (last_call = "detect_all" /\ ~requested_types.is_none) =>
        \A m \in Elements(final_matches) :
            \E u \in Elements(FilterByThreshold(Unfiltered.all_matches, threshold)) :
                SameMatch(m, u)

\* a filter for one type has returned a match that the unfiltered call
\* gives up for an overlapping match of another type
C30_Witness ==
    /\ last_call = "detect_all"
    /\ input_text = "856432190"
    /\ requested_types = TypeList(<<"DRIVER_LICENSE">>)
    /\ Len(final_matches) = 1
    /\ final_matches[1].pii_type = "DRIVER_LICENSE"
    /\ \E u \in Elements(Unfiltered.matches) : u.pii_type = "SSN"

====
